---- MODULE Spec2Model ----
(***************************************************************************)
(* Sisacao-8: the end-of-day signal generator, the daily backtest          *)
(* simulator, the parsing of stored signals and the date-partitioned       *)
(* overwrite of the signal, trade and metric tables.                       *)
(*                                                                         *)
(* Numbers.  Python floats are held as records: Num(v) with v a fixed-point *)
(* integer, NaN, or None (a missing value).  Scores, rates and ratios are  *)
(* in units of 1/ScoreScale, percentages in units of 1/PctScale, turnover  *)
(* in thousands.  Strings are sequences of one-character strings.          *)
(***************************************************************************)
EXTENDS Integers, Sequences, FiniteSets, TLC

VARIABLES
    \* generate_conditional_signals (functions/eod_signals/signals.py)
    gRows,        \* the input bar set, in input order
    gCfg,         \* top_n, x_pct, target_pct, stop_pct, allow_sell, horizon_days
    gMetrics,     \* the backtest_metrics snapshot (a sequence of rows)
    gPc,          \* "start", "prepare", "select", "done", "raised"
    gCandidates,  \* the candidate list, in the order built
    gSignals,     \* the returned list of ConditionalSignal
    gComputed,    \* TRUE once the bar set has been read
    \* _simulate_signal (functions/backtest_daily/backtest.py)
    sSignal,      \* the SignalPayload
    sCandles,     \* ticker_candles: date -> DailyBar
    sPc,          \* "start", "loop", "finish", "done", "raised"
    sDays,        \* ordered_days
    sI,           \* the index of the next bar of the loop
    sLoc,         \* the locals of _simulate_signal
    sTrade,       \* the returned BacktestTrade, <<>> before the return
    \* SignalPayload.from_mapping (functions/backtest_daily/backtest.py)
    pRow,         \* the mapping given to from_mapping
    pPc,          \* "start", "done", "raised"
    pPayload,     \* the returned SignalPayload, <<>> before the return
    \* generate_eod_signals and backtest_daily over the store
    \* (functions/eod_signals/main.py, functions/backtest_daily/main.py)
    tSignals,     \* the signal table: rows [date, ticker, run]
    tTrades,      \* the trade table: rows [date, ticker, run, signal_run]
    tMetrics,     \* the metric table: rows [date, key, signals, run, basis]
    rPc,          \* per worker: the position of its run, "idle" between runs
    rRun,         \* per worker: kind, date, id and locals of its run
    nRuns,        \* the number of runs started
    hLog,         \* history: per run its kind, date, status, the tables it
                  \* deleted from and the rows it inserted
    \* build_signal_payloads and build_candle_lookup
    \* (functions/backtest_daily/backtest.py)
    bKind,        \* "signals" or "candles"
    bRows,        \* the batch of rows, in order
    bI,           \* the index of the next row of the loop
    bOut,         \* payloads (a sequence) or grouped (ticker, date) -> bar
    bPc,          \* "loop", "done", "raised"
    \* next_trading_day, previous_trading_day, add_trading_days
    \* (sisacao8/calendar.py)
    cOp,          \* "next", "previous" or "add"
    cDate,        \* date_value, a day number; day 0 is a Monday
    cHolidays,    \* the normalised holiday set
    cDelta,       \* delta of add_trading_days
    cStep,        \* +1 or -1, the direction of the running loop
    cCandidate,   \* candidate
    cRemaining,   \* remaining
    cPc,          \* "start", "search", "count", "done"
    \* compute_metrics (functions/backtest_daily/backtest.py)
    mRows,        \* the trade rows, in order
    mAsOf,        \* as_of_date
    mMetrics,     \* the returned metric rows, in order
    mPc,          \* "start", "done"
    \* run_backtest (functions/backtest_daily/backtest.py)
    rbSignals,    \* the signals, in order
    rbCandles,    \* ticker -> date -> bar
    rbI,          \* index of the signal the loop is at
    rbTrades,     \* the trades appended so far
    rbPc          \* "loop", "done"

genVars == <<gRows, gCfg, gMetrics, gPc, gCandidates, gSignals, gComputed>>

simVars == <<sSignal, sCandles, sPc, sDays, sI, sLoc, sTrade>>

parseVars == <<pRow, pPc, pPayload>>

storeVars == <<tSignals, tTrades, tMetrics, rPc, rRun, nRuns, hLog>>

batchVars == <<bKind, bRows, bI, bOut, bPc>>

calVars == <<cOp, cDate, cHolidays, cDelta, cStep, cCandidate, cRemaining, cPc>>

metVars == <<mRows, mAsOf, mMetrics, mPc>>

runVars == <<rbSignals, rbCandles, rbI, rbTrades, rbPc>>

vars == <<genVars, simVars, parseVars, storeVars, batchVars, calVars, metVars, runVars>>

\* What the actions of one component leave alone
notGen == <<simVars, parseVars, storeVars, batchVars, calVars, metVars, runVars>>
notSim == <<genVars, parseVars, storeVars, batchVars, calVars, metVars, runVars>>
notParse == <<genVars, simVars, storeVars, batchVars, calVars, metVars, runVars>>
notStore == <<genVars, simVars, parseVars, batchVars, calVars, metVars, runVars>>
notBatch == <<genVars, simVars, parseVars, storeVars, calVars, metVars, runVars>>
notCal == <<genVars, simVars, parseVars, storeVars, batchVars, metVars, runVars>>
notMet == <<genVars, simVars, parseVars, storeVars, batchVars, calVars, runVars>>
notRun == <<genVars, simVars, parseVars, storeVars, batchVars, calVars, metVars>>

-----------------------------------------------------------------------------
(* Floats *)

ScoreScale == 1000000
PctScale == 100

NaN == [k |-> "nan", v |-> 0]
None == [k |-> "none", v |-> 0]
Num(v) == [k |-> "num", v |-> v]

IsNum(x) == x.k = "num"
IsNaN(x) == x.k = "nan"
IsNone(x) == x.k = "none"

\* Python truthiness of a float or None: None and 0.0 are falsy, NaN is truthy.
Truthy(x) == IsNaN(x) \/ (IsNum(x) /\ x.v # 0)

\* a or b
PyOr(a, b) == IF Truthy(a) THEN a ELSE b

\* Comparisons: every comparison with NaN is False.
FLt(a, b) == IsNum(a) /\ IsNum(b) /\ a.v < b.v
FLe(a, b) == IsNum(a) /\ IsNum(b) /\ a.v <= b.v
FGt(a, b) == FLt(b, a)

\* min(a, b) and max(a, b) of Python: the first argument is kept unless the
\* second compares strictly smaller (greater).
PyMin(a, b) == IF FLt(b, a) THEN b ELSE a
PyMax(a, b) == IF FGt(b, a) THEN b ELSE a

FSub(a, b) == IF IsNum(a) /\ IsNum(b) THEN Num(a.v - b.v) ELSE NaN
FAdd(a, b) == IF IsNum(a) /\ IsNum(b) THEN Num(a.v + b.v) ELSE NaN
\* a * (n / d) for a literal ratio n/d (0.6 is 6/10, 1/0.12 is 100/12)
FScale(a, n, d) == IF IsNum(a) THEN Num((a.v * n) \div d) ELSE NaN
\* a / b as a ratio in units of 1/ScoreScale (b is known nonzero)
FRatio(a, b) == IF IsNum(a) /\ IsNum(b) THEN Num((a.v * ScoreScale) \div b.v) ELSE NaN

\* float(x or 0.0) for an optional float
FloatOr0(x) == PyOr(x, Num(0))

\* floor(log10(v)) for v >= 1
RECURSIVE Log10Floor(_)
Log10Floor(v) == IF v < 10 THEN 0 ELSE 1 + Log10Floor(v \div 10)

-----------------------------------------------------------------------------
(* Strings *)

Upper(c) ==
    CASE c = "a" -> "A" [] c = "b" -> "B" [] c = "n" -> "N"
      [] c = "o" -> "O" [] c = "e" -> "E" [] c = "s" -> "S" [] c = "l" -> "L"
      [] OTHER -> c

Ord(c) ==
    CASE c = " " -> 32 [] c = "A" -> 65 [] c = "B" -> 66 [] c = "C" -> 67
      [] c = "D" -> 68 [] c = "E" -> 69 [] c = "F" -> 70 [] c = "G" -> 71
      [] c = "L" -> 76
      [] c = "N" -> 78 [] c = "O" -> 79 [] c = "S" -> 83 [] c = "U" -> 85
      [] c = "Y" -> 89 [] c = "a" -> 97 [] c = "b" -> 98 [] c = "e" -> 101
      [] c = "l" -> 108 [] c = "n" -> 110 [] c = "o" -> 111 [] c = "s" -> 115

StrUpper(s) == [i \in 1..Len(s) |-> Upper(s[i])]

RECURSIVE LStrip(_)
LStrip(s) == IF s # <<>> /\ Head(s) = " " THEN LStrip(Tail(s)) ELSE s

RECURSIVE RStrip(_)
RStrip(s) ==
    IF s # <<>> /\ s[Len(s)] = " " THEN RStrip(SubSeq(s, 1, Len(s) - 1)) ELSE s

StrStrip(s) == RStrip(LStrip(s))

\* s < t in Python's string order (by code point, a prefix first)
RECURSIVE StrLt(_, _)
StrLt(s, t) ==
    IF t = <<>> THEN FALSE
    ELSE IF s = <<>> THEN TRUE
    ELSE IF Ord(Head(s)) # Ord(Head(t)) THEN Ord(Head(s)) < Ord(Head(t))
    ELSE StrLt(Tail(s), Tail(t))

BUY == <<"B", "U", "Y">>
SELL == <<"S", "E", "L", "L">>

\* A value that may be missing: str(None) is "None"
NoStr == [none |-> TRUE, s |-> <<>>]
Str(s) == [none |-> FALSE, s |-> s]
PyStr(x) == IF x.none THEN <<"N", "o", "n", "e">> ELSE x.s

-----------------------------------------------------------------------------
(* generate_conditional_signals *)

MAX_SIGNALS_PER_DAY == 5

\* pd.to_numeric(errors="coerce"): whatever is not a number becomes NaN
ToNumeric(x) == IF IsNum(x) THEN x ELSE NaN

\* A preference that ignores the bar
_preferred_side_AlwaysBuy(close_price, open_price) == BUY

_preferred_side(close_price, open_price) ==
    IF IsNone(open_price) THEN BUY
    ELSE IF FGt(close_price, open_price) THEN SELL ELSE BUY

\* The lookup built from the metrics rows, a later row replacing an earlier
\* one of the same (ticker, side); <<>> when the key is absent.
RECURSIVE MetricsGet(_, _, _)
MetricsGet(metrics, ticker, side) ==
    IF metrics = <<>> THEN <<>>
    ELSE LET row == metrics[Len(metrics)]
             t == StrUpper(StrStrip(PyStr(row.ticker)))
             s == StrUpper(StrStrip(PyStr(row.side)))
             win_rate == FloatOr0(row.win_rate)
             profit_factor == FloatOr0(row.profit_factor)
         IN IF t # <<>> /\ s \in {BUY, SELL} /\ t = ticker /\ s = side
            THEN << [win_rate |-> PyMax(Num(0), PyMin(Num(ScoreScale), win_rate)),
                     profit_factor |-> PyMax(Num(0), profit_factor)] >>
            ELSE MetricsGet(SubSeq(metrics, 1, Len(metrics) - 1), ticker, side)

_prepare_metrics_lookup(metrics) ==
    [key \in {<<t, s>> : t \in {StrUpper(StrStrip(PyStr(metrics[i].ticker))) :
                                   i \in 1..Len(metrics)},
                         s \in {BUY, SELL}}
        |-> MetricsGet(metrics, key[1], key[2])]

\* log10 of a turnover held in thousands, in units of 1/ScoreScale
Log10(value) == Num((Log10Floor(value.v) + 3) * ScoreScale)

_normalize_liquidity(value) ==
    IF FLe(value, Num(0)) THEN Num(0)
    ELSE LET log_value == IF IsNum(value) THEN Log10(value) ELSE NaN
             min_log == 4
             max_log == 10
             normalized == FScale(FSub(log_value, Num(min_log * ScoreScale)),
                                  1, max_log - min_log)
         IN PyMax(Num(0), PyMin(Num(ScoreScale), normalized))

_volatility_penalty(high, low, close) ==
    IF FLe(close, Num(0)) THEN Num(0)
    ELSE LET range_pct == FRatio(PyMax(FSub(high, low), Num(0)), close)
         IN FScale(PyMin(FScale(range_pct, 100, 12), Num(ScoreScale)), 1, 10)

\* row.get("volume_financeiro") or row.get("volume") or
\* row.get("qtd_negociada") or 0.0; the frames carry no "volume" column
RowLiquidity(row) ==
    PyOr(PyOr(PyOr(row.volume_financeiro, None), row.qtd_negociada), Num(0))

\* max(0.0, min(1.0, x)), line 205
\* The score left as raw_score - penalty
Clamp01_Unclamped(x) == x
Clamp01(x) == PyMax(Num(0), PyMin(Num(ScoreScale), x))

_compute_candidate_score(ticker, side, row, metrics_lookup) ==
    LET liquidity == RowLiquidity(row)
        liquidity_score == _normalize_liquidity(liquidity)
        stats == IF <<ticker, side>> \in DOMAIN metrics_lookup
                 THEN metrics_lookup[<<ticker, side>>] ELSE <<>>
        backtest_score ==
            IF stats # <<>>
            THEN FAdd(FScale(stats[1].win_rate, 7, 10),
                      FScale(PyMin(Num(ScoreScale), FScale(stats[1].profit_factor, 1, 3)),
                             3, 10))
            ELSE Num(ScoreScale \div 2)
        high == PyOr(PyOr(row.high, row.close), Num(0))
        low == PyOr(PyOr(row.low, row.close), Num(0))
        close_price == FloatOr0(row.close)
        penalty == _volatility_penalty(high, low, close_price)
        raw_score == FAdd(FScale(backtest_score, 6, 10), FScale(liquidity_score, 4, 10))
    IN Clamp01(FSub(raw_score, penalty))

\* A candidate with the target and the stop on each other's side
_build_candidate_SwappedLevels(ticker, side, close_price, cfg, preferred_side, score, volume) ==
    LET multiplier == IF side = BUY THEN PctScale - cfg.x_pct ELSE PctScale + cfg.x_pct
        entry == FScale(close_price, multiplier, PctScale)
        target == IF side = BUY THEN FScale(entry, PctScale - cfg.target_pct, PctScale)
                  ELSE FScale(entry, PctScale + cfg.target_pct, PctScale)
        stop == IF side = BUY THEN FScale(entry, PctScale + cfg.stop_pct, PctScale)
                ELSE FScale(entry, PctScale - cfg.stop_pct, PctScale)
    IN [ticker |-> ticker, side |-> side, entry |-> entry, target |-> target,
        stop |-> stop, score |-> score,
        priority |-> IF side = preferred_side THEN 0 ELSE 1,
        volume |-> volume, close |-> close_price,
        horizon_days |-> cfg.horizon_days]

_build_candidate(ticker, side, close_price, cfg, preferred_side, score, volume) ==
    LET multiplier == IF side = BUY THEN PctScale - cfg.x_pct ELSE PctScale + cfg.x_pct
        entry == FScale(close_price, multiplier, PctScale)
        target == IF side = BUY THEN FScale(entry, PctScale + cfg.target_pct, PctScale)
                  ELSE FScale(entry, PctScale - cfg.target_pct, PctScale)
        stop == IF side = BUY THEN FScale(entry, PctScale - cfg.stop_pct, PctScale)
                ELSE FScale(entry, PctScale + cfg.stop_pct, PctScale)
    IN [ticker |-> ticker, side |-> side, entry |-> entry, target |-> target,
        stop |-> stop, score |-> score,
        priority |-> IF side = preferred_side THEN 0 ELSE 1,
        volume |-> volume, close |-> close_price,
        horizon_days |-> cfg.horizon_days]

\* Lines 284-296: the ticker normalised, blank tickers dropped, close and open
\* coerced, rows without a close dropped.
NormalizeRow(row) ==
    [row EXCEPT !.ticker = StrStrip(StrUpper(PyStr(row.ticker))),
                !.close = ToNumeric(row.close),
                !.open = ToNumeric(row.open),
                !.volume_financeiro = ToNumeric(row.volume_financeiro),
                !.qtd_negociada = ToNumeric(row.qtd_negociada)]

\* The normalisation without the drop of blank tickers
NormalizeFrame_KeepsBlank(rows) ==
    LET norm == [i \in 1..Len(rows) |-> NormalizeRow(rows[i])]
    IN SelectSeq(norm, LAMBDA r : ~IsNaN(r.close))

NormalizeFrame(rows) ==
    LET norm == [i \in 1..Len(rows) |-> NormalizeRow(rows[i])]
    IN SelectSeq(norm, LAMBDA r : r.ticker # <<>> /\ ~IsNaN(r.close))

RowCandidates(row, cfg, metrics_lookup) ==
    LET ticker == row.ticker
        close_price == row.close
        preferred == _preferred_side(close_price,
                                     IF IsNaN(row.open) THEN None ELSE row.open)
        liquidity_value == RowLiquidity(row)
        Cand(side) == _build_candidate(ticker, side, close_price, cfg, preferred,
                          _compute_candidate_score(ticker, side, row, metrics_lookup),
                          liquidity_value)
    IN IF cfg.allow_sell THEN <<Cand(BUY), Cand(SELL)>> ELSE <<Cand(BUY)>>

RECURSIVE BuildCandidates(_, _, _)
BuildCandidates(df, cfg, metrics_lookup) ==
    IF df = <<>> THEN <<>>
    ELSE RowCandidates(Head(df), cfg, metrics_lookup)
         \o BuildCandidates(Tail(df), cfg, metrics_lookup)

\* Python's tuple order on (-score, priority, ticker, side)
FNeg(x) == IF IsNum(x) THEN Num(0 - x.v) ELSE x
FEq(a, b) == IsNum(a) /\ IsNum(b) /\ a.v = b.v

SortKeyLt(a, b) ==
    IF ~FEq(FNeg(a.score), FNeg(b.score)) THEN FLt(FNeg(a.score), FNeg(b.score))
    ELSE IF a.priority # b.priority THEN a.priority < b.priority
    ELSE IF a.ticker # b.ticker THEN StrLt(a.ticker, b.ticker)
    ELSE StrLt(a.side, b.side)

\* list.sort is stable: an element goes after the elements it does not precede
RECURSIVE InsertSorted(_, _)
InsertSorted(sorted, c) ==
    IF sorted = <<>> THEN <<c>>
    ELSE IF SortKeyLt(c, Head(sorted)) THEN <<c>> \o sorted
    ELSE <<Head(sorted)>> \o InsertSorted(Tail(sorted), c)

\* The candidates left in the order they were built
SortCandidates_Unsorted(cands) == cands

RECURSIVE SortCandidates(_)
SortCandidates(cands) ==
    IF cands = <<>> THEN <<>>
    ELSE InsertSorted(SortCandidates(SubSeq(cands, 1, Len(cands) - 1)),
                      cands[Len(cands)])

Limit(top_n) ==
    LET m == IF top_n > 0 THEN top_n ELSE 0
    IN IF m < MAX_SIGNALS_PER_DAY THEN m ELSE MAX_SIGNALS_PER_DAY

\* Lines 344-347: a candidate is skipped when its ticker is already selected
\* A selection that never skips a ticker
TickerUsed_Never(selected, ticker) == FALSE
TickerUsed(selected, ticker) == \E i \in 1..Len(selected) : selected[i].ticker = ticker

MakeSignal(candidate, rank) ==
    [ticker |-> candidate.ticker, side |-> candidate.side,
     entry |-> candidate.entry, target |-> candidate.target,
     stop |-> candidate.stop, rank |-> rank, volume |-> candidate.volume,
     close |-> candidate.close, score |-> candidate.score,
     horizon_days |-> candidate.horizon_days]

RECURSIVE SelectSignals(_, _, _)
SelectSignals(cands, selected, limit) ==
    IF cands = <<>> THEN selected
    ELSE IF TickerUsed(selected, Head(cands).ticker)
         THEN SelectSignals(Tail(cands), selected, limit)
    ELSE LET next == Append(selected, MakeSignal(Head(cands), Len(selected) + 1))
         IN IF Len(next) >= limit THEN next
            ELSE SelectSignals(Tail(cands), next, limit)

-----------------------------------------------------------------------------
(* Inputs of the generator.  Prices are in cents, turnover in thousands. *)

MaxRows == 8

Bar(ticker, open, close, high, low, vf, qtd) ==
    [ticker |-> ticker, open |-> open, close |-> close, high |-> high,
     low |-> low, volume_financeiro |-> vf, qtd_negociada |-> qtd]

Text == [k |-> "text", v |-> 0]

\* The rows a bar set is drawn from: six tickers, a second row for ticker A
\* written "a ", a blank ticker, and a row whose close does not parse.
BarPool ==
    << Bar(Str(<<"A">>), Num(10100), Num(10000), Num(10100), Num(9900), Num(1000), None),
       Bar(Str(<<"B">>), Num(9900), Num(10000), None, None, Num(1000), None),
       Bar(Str(<<"C">>), Num(0), Num(0), None, None, Num(1000), None),
       Bar(Str(<<"D">>), NaN, Num(10000), NaN, Num(9900), NaN, None),
       Bar(Str(<<"E">>), Num(10000), Num(10000), Num(11000), Num(9500), Num(0), Num(-5)),
       Bar(Str(<<"F">>), Num(9000), Num(10000), Num(10000), Num(10000), Num(100000000), None),
       Bar(Str(<<"a", " ">>), Num(20200), Num(20000), Num(20200), Num(19800), Num(1000), None),
       Bar(Str(<<" ">>), Num(10000), Num(10000), None, None, Num(1000), None),
       Bar(Str(<<"b">>), Num(10000), Text, None, None, Num(1000), None) >>

\* The rows of the pool at the indices in `idx`, ascending or descending
RECURSIVE PickRows(_, _, _)
PickRows(idx, i, asc) ==
    IF i > Len(BarPool) THEN <<>>
    ELSE LET rest == PickRows(idx, i + 1, asc)
         IN IF i \notin idx THEN rest
            ELSE IF asc THEN <<BarPool[i]>> \o rest ELSE Append(rest, BarPool[i])

BarSets ==
    {PickRows(idx, 1, asc) :
        idx \in {s \in SUBSET (1..Len(BarPool)) : Cardinality(s) <= MaxRows},
        asc \in BOOLEAN}

Config(top_n, x_pct, target_pct, stop_pct, allow_sell, horizon_days) ==
    [top_n |-> top_n, x_pct |-> x_pct, target_pct |-> target_pct,
     stop_pct |-> stop_pct, allow_sell |-> allow_sell, horizon_days |-> horizon_days]

\* The configurations every bar set is run under
CoreConfigs == {Config(n, 2, 7, 7, sell, 10) : n \in {2, 7}, sell \in BOOLEAN}

\* Every combination of a limit and an entry offset, and each way a
\* configuration can be invalid
ConfigInputs ==
    {Config(n, x, 7, 7, sell, 10) : n \in {-1, 0, 1, 2, 5, 7}, x \in {-1, 0, 2},
                                    sell \in BOOLEAN}
    \cup {Config(n, 2, t[1], t[2], TRUE, t[3]) :
             n \in {0, 5}, t \in {<<0, 7, 10>>, <<7, 0, 10>>, <<7, -7, 10>>,
                                  <<7, 7, 0>>, <<7, 7, -1>>}}
    \cup {Config(5, x, 7, 7, TRUE, 10) : x \in {100, 150}}

\* The bar sets every configuration is run on
CoreBarSets ==
    {PickRows(idx, 1, TRUE) : idx \in {{}, {8}, {9}, {8, 9}, {1, 2}, 1..6, {1, 7, 8, 9}}}

ValidConfig(cfg) ==
    cfg.x_pct >= 0 /\ cfg.target_pct > 0 /\ cfg.stop_pct > 0 /\ cfg.horizon_days > 0

Metric(ticker, side, win_rate, profit_factor) ==
    [ticker |-> ticker, side |-> side, win_rate |-> win_rate,
     profit_factor |-> profit_factor]

\* A snapshot as compute_metrics writes it (global and by-side rows have a
\* null ticker or side, profit_factor is null when nothing was lost), and one
\* with values outside their ranges.
MetricsInputs ==
    { <<>>,
      << Metric(NoStr, NoStr, Num(500000), Num(1000000)),
         Metric(NoStr, Str(BUY), Num(500000), NaN),
         Metric(Str(<<"A">>), NoStr, Num(800000), Num(2000000)),
         Metric(Str(<<"A">>), Str(BUY), Num(800000), Num(2000000)),
         Metric(Str(<<"B">>), Str(SELL), Num(1000000), NaN),
         Metric(Str(<<"E">>), Str(BUY), Num(0), Num(0)),
         Metric(Str(<<"E">>), Str(SELL), Num(0), Num(0)),
         Metric(Str(<<"G">>), Str(BUY), Num(800000), Num(2000000)) >>,
      << Metric(Str(<<"a">>), Str(<<"b", "U", "Y">>), Num(2000000), Num(9000000)),
         Metric(Str(<<"B">>), Str(SELL), Num(-500000), Num(-1000000)),
         Metric(Str(<<"C">>), Str(BUY), NaN, None),
         Metric(Str(<<"F">>), Str(SELL), Num(200000), Num(500000)),
         Metric(Str(<<"F">>), Str(SELL), Num(1000000), Num(3000000)),
         Metric(Str(<<"E">>), Str(BUY), Num(50000), Num(0)),
         Metric(Str(<<"G">>), Str(BUY), Num(100000), Num(100000)) >> }

\* Two tickers with the same bar, in both orders, and a ticker spelled
\* "none" next to ticker A
TwinBarSets ==
    LET e == BarPool[5]
        g == [e EXCEPT !.ticker = Str(<<"G">>)]
        none == [BarPool[2] EXCEPT !.ticker = Str(<<"n", "o", "n", "e">>)]
    IN {<<e, g>>, <<g, e>>, <<none, BarPool[1]>>}

GenInputs ==
    (BarSets \X CoreConfigs \X MetricsInputs)
    \cup (CoreBarSets \X ConfigInputs \X MetricsInputs)
    \cup (TwinBarSets \X CoreConfigs \X MetricsInputs)

GenInit ==
    /\ \E in \in GenInputs : gRows = in[1] /\ gCfg = in[2] /\ gMetrics = in[3]
    /\ gPc = "start"
    /\ gCandidates = <<>>
    /\ gSignals = <<>>
    /\ gComputed = FALSE

\* Lines 266-274: the limit, then the configuration checks
GenValidate ==
    /\ gPc = "start"
    /\ gPc' = IF Limit(gCfg.top_n) = 0 THEN "done"
              ELSE IF gCfg.x_pct < 0 THEN "raised"
              ELSE IF gCfg.target_pct <= 0 \/ gCfg.stop_pct <= 0 THEN "raised"
              ELSE IF gCfg.horizon_days <= 0 THEN "raised"
              ELSE "prepare"
    /\ UNCHANGED <<gRows, gCfg, gMetrics, gCandidates, gSignals, gComputed>>
    /\ UNCHANGED notGen

\* Lines 275-331: an empty frame returns []; otherwise the frame is
\* normalised and the candidates are built
GenPrepare ==
    /\ gPc = "prepare"
    /\ IF gRows = <<>>
       THEN /\ gPc' = "done"
            /\ UNCHANGED <<gCandidates, gComputed>>
       ELSE /\ gPc' = "select"
            /\ gComputed' = TRUE
            /\ gCandidates' = BuildCandidates(NormalizeFrame(gRows), gCfg,
                                              _prepare_metrics_lookup(gMetrics))
    /\ UNCHANGED <<gRows, gCfg, gMetrics, gSignals>>
    /\ UNCHANGED notGen

\* Lines 333-368: the sort and the walk over the sorted candidates
GenSelect ==
    /\ gPc = "select"
    /\ gPc' = "done"
    /\ gSignals' = SelectSignals(SortCandidates(gCandidates), <<>>, Limit(gCfg.top_n))
    /\ UNCHANGED <<gRows, gCfg, gMetrics, gCandidates, gComputed>>
    /\ UNCHANGED notGen

GenNext == GenValidate \/ GenPrepare \/ GenSelect

-----------------------------------------------------------------------------
(* Properties of the generator, checked under SpecGen *)

Tickers(seq) == {seq[i].ticker : i \in 1..Len(seq)}

\* The raw ticker is empty or whitespace
BlankTicker(t) == ~t.none /\ \A i \in 1..Len(t.s) : t.s[i] = " "

\* Every row has a blank ticker or a close that is no number
EmptyAfterNormalization(rows) ==
    \A i \in 1..Len(rows) : BlankTicker(rows[i].ticker) \/ ~IsNum(rows[i].close)

\* Two rows of the input carry the same ticker once normalised
HasRepeatedTicker(rows) ==
    \E i, j \in 1..Len(rows) :
        /\ i < j
        /\ StrStrip(StrUpper(PyStr(rows[i].ticker)))
              = StrStrip(StrUpper(PyStr(rows[j].ticker)))

\* C1: the returned list holds at most min(top_n, MAX_SIGNALS_PER_DAY)
\* signals, and no two of them have the same ticker.
C1_AtMostLimitDistinctTickers ==
    (gPc = "done" /\ gCfg.top_n >= 0) =>
        /\ Len(gSignals) <= gCfg.top_n
        /\ Len(gSignals) <= MAX_SIGNALS_PER_DAY
        /\ \A i, j \in 1..Len(gSignals) :
              i # j => gSignals[i].ticker # gSignals[j].ticker

\* C1 witness: six tickers with both sides scored and a ticker given twice,
\* under a top_n of 7: five signals are returned.
C1_Witness ==
    /\ gPc = "done"
    /\ gCfg.top_n > MAX_SIGNALS_PER_DAY
    /\ gCfg.allow_sell
    /\ HasRepeatedTicker(gRows)
    /\ Cardinality(Tickers(gCandidates)) > MAX_SIGNALS_PER_DAY
    /\ Len(gSignals) = MAX_SIGNALS_PER_DAY

\* The position in gCandidates of the candidate of ticker t that the sort
\* puts first: none of t's candidates has a smaller key, and those with the
\* same key were built later
FirstOf(t) ==
    CHOOSE i \in 1..Len(gCandidates) :
        /\ gCandidates[i].ticker = t
        /\ \A j \in 1..Len(gCandidates) :
              gCandidates[j].ticker = t =>
                  /\ ~SortKeyLt(gCandidates[j], gCandidates[i])
                  /\ (j < i => SortKeyLt(gCandidates[i], gCandidates[j]))

Smaller(a, b) == IF a < b THEN a ELSE b

\* C20: the returned signals are the first candidates of their tickers in
\* the order of (-score, priority, ticker, side), as many as the limit and
\* the number of tickers allow, ranked 1..k in that order; scores never
\* increase with the rank, and no candidate of an unselected ticker sorts
\* before the last selected one.
C20_SelectionIsSortedFirstOccurrences ==
    (gPc = "done" /\ gComputed) =>
        LET k == Len(gSignals)
            Cand(i) == gCandidates[FirstOf(gSignals[i].ticker)]
        IN /\ k = Smaller(Limit(gCfg.top_n), Cardinality(Tickers(gCandidates)))
           /\ \A i \in 1..k :
                 /\ gSignals[i].ticker \in Tickers(gCandidates)
                 /\ gSignals[i] = MakeSignal(Cand(i), i)
                 /\ gSignals[i].rank = i
                 /\ i < k => /\ SortKeyLt(Cand(i), Cand(i + 1))
                             /\ gSignals[i].score.v >= gSignals[i + 1].score.v
           /\ \A j \in 1..Len(gCandidates) :
                 gCandidates[j].ticker \notin Tickers(gSignals) =>
                     (k > 0 /\ SortKeyLt(Cand(k), gCandidates[j]))

\* C20 witness: the limit leaves a ticker out, a ticker is given twice, a
\* selected signal is a SELL that was built after the BUY of its ticker, and
\* the scores of the selection differ.
C20_Witness ==
    /\ gPc = "done"
    /\ gComputed
    /\ Len(gSignals) >= 2
    /\ Tickers(gSignals) # Tickers(gCandidates)
    /\ HasRepeatedTicker(gRows)
    /\ \E i \in 1..Len(gSignals) : gSignals[i].side = SELL
    /\ gSignals[1].score # gSignals[Len(gSignals)].score

SameKey(a, b) == ~SortKeyLt(a, b) /\ ~SortKeyLt(b, a)

\* seq[::-1]
Reversed(seq) == [i \in 1..Len(seq) |-> seq[Len(seq) + 1 - i]]

\* C21: no two distinct candidates of a built list have the same sort key,
\* and the list sorts to the same order when its rows are given in the
\* reverse order.
C21_SortKeyTotal ==
    (gPc \in {"select", "done"} /\ gComputed) =>
        /\ \A i, j \in 1..Len(gCandidates) :
              gCandidates[i] # gCandidates[j] => ~SameKey(gCandidates[i], gCandidates[j])
        /\ SortCandidates(BuildCandidates(NormalizeFrame(Reversed(gRows)), gCfg,
                                          _prepare_metrics_lookup(gMetrics)))
              = SortCandidates(gCandidates)

\* The rows of the normalised frame that carry ticker t
RowsOf(t) ==
    LET df == NormalizeFrame(gRows)
    IN {i \in 1..Len(df) : df[i].ticker = t}

\* SELL for a row that closed above its open, else BUY
PreferredOf(t) ==
    LET df == NormalizeFrame(gRows)
        row == df[CHOOSE i \in RowsOf(t) : TRUE]
    IN IF IsNum(row.open) /\ row.close.v > row.open.v THEN SELL ELSE BUY

OtherSide(side) == IF side = BUY THEN SELL ELSE BUY

ScoreOf(t, side) ==
    LET i == CHOOSE j \in 1..Len(gCandidates) :
                 gCandidates[j].ticker = t /\ gCandidates[j].side = side
    IN gCandidates[i].score.v

\* C22: for a ticker given by one row with both sides allowed, the side of
\* its signal is the preferred side when the two scores are equal (or the
\* preferred side scores higher), and the other side when that one scores
\* strictly higher.
C22_PreferredSideBreaksTies ==
    (gPc = "done" /\ gComputed /\ gCfg.allow_sell) =>
        \A i \in 1..Len(gSignals) :
            LET t == gSignals[i].ticker
                preferred == PreferredOf(t)
            IN Cardinality(RowsOf(t)) = 1 =>
                  gSignals[i].side =
                      IF ScoreOf(t, OtherSide(preferred)) > ScoreOf(t, preferred)
                      THEN OtherSide(preferred) ELSE preferred

\* C22 witness: one signal has equal scores on its two sides and takes the
\* preferred one, and another is the BUY of a green day, whose SELL scores
\* lower.
C22_Witness ==
    /\ gPc = "done" /\ gComputed /\ gCfg.allow_sell
    /\ \E i \in 1..Len(gSignals) :
          LET t == gSignals[i].ticker
          IN /\ Cardinality(RowsOf(t)) = 1
             /\ gSignals[i].side = PreferredOf(t)
             /\ ScoreOf(t, BUY) = ScoreOf(t, SELL)
    /\ \E i \in 1..Len(gSignals) :
          LET t == gSignals[i].ticker
          IN /\ Cardinality(RowsOf(t)) = 1
             /\ PreferredOf(t) = SELL
             /\ gSignals[i].side = BUY

\* The SELL of a green day whose two sides score the same
C22_WitnessGreenDay ==
    /\ gPc = "done" /\ gComputed /\ gCfg.allow_sell
    /\ \E i \in 1..Len(gSignals) :
          LET t == gSignals[i].ticker
          IN /\ Cardinality(RowsOf(t)) = 1
             /\ PreferredOf(t) = SELL
             /\ gSignals[i].side = SELL
             /\ ScoreOf(t, BUY) = ScoreOf(t, SELL)

\* The row of the normalised frame that candidate j was built from
RowOfCandidate(j) ==
    LET n == IF gCfg.allow_sell THEN 2 ELSE 1
    IN NormalizeFrame(gRows)[(j + n - 1) \div n]

\* The rows of the snapshot written for (ticker, side): neither is null
OwnMetrics(ticker, side) ==
    {i \in 1..Len(gMetrics) :
        /\ ~gMetrics[i].ticker.none /\ ~gMetrics[i].side.none
        /\ StrUpper(StrStrip(gMetrics[i].ticker.s)) = ticker
        /\ StrUpper(StrStrip(gMetrics[i].side.s)) = side}

LastOwnMetric(ticker, side) ==
    gMetrics[CHOOSE i \in OwnMetrics(ticker, side) :
                 \A k \in OwnMetrics(ticker, side) : k <= i]

\* 0.7 x winRate + 0.3 x min(1, profitFactor / 3), or 0.5 without a row
BacktestComponent(ticker, side) ==
    IF OwnMetrics(ticker, side) = {} THEN Num(ScoreScale \div 2)
    ELSE LET m == LastOwnMetric(ticker, side)
             win_rate == PyMax(Num(0), PyMin(Num(ScoreScale), FloatOr0(m.win_rate)))
             profit_factor == PyMax(Num(0), FloatOr0(m.profit_factor))
         IN FAdd(FScale(win_rate, 7, 10),
                 FScale(PyMin(Num(ScoreScale), FScale(profit_factor, 1, 3)), 3, 10))

ExpectedScore(j) ==
    LET row == RowOfCandidate(j)
        c == gCandidates[j]
        liquidity_score == _normalize_liquidity(RowLiquidity(row))
        penalty == _volatility_penalty(PyOr(PyOr(row.high, row.close), Num(0)),
                                       PyOr(PyOr(row.low, row.close), Num(0)),
                                       FloatOr0(row.close))
    IN Clamp01(FSub(FAdd(FScale(BacktestComponent(c.ticker, c.side), 6, 10),
                         FScale(liquidity_score, 4, 10)),
                    penalty))

\* The score of every candidate is built on the component of its own
\* (ticker, side) row, so that rows with a null ticker or side count for
\* nothing
ComponentFromOwnRow ==
    \A j \in 1..Len(gCandidates) : gCandidates[j].score = ExpectedScore(j)

\* Candidates i and j are the same side of two tickers, each given by one
\* row, with the same bar and liquidity, and the row of i has the higher
\* winRate and the higher profitFactor
BetterTwin(i, j) ==
    LET ci == gCandidates[i]
        cj == gCandidates[j]
    IN /\ ci.ticker # cj.ticker /\ ci.side = cj.side
       /\ Cardinality(RowsOf(ci.ticker)) = 1 /\ Cardinality(RowsOf(cj.ticker)) = 1
       /\ [RowOfCandidate(i) EXCEPT !.ticker = cj.ticker] = RowOfCandidate(j)
       /\ OwnMetrics(ci.ticker, ci.side) # {} /\ OwnMetrics(cj.ticker, cj.side) # {}
       /\ LET mi == LastOwnMetric(ci.ticker, ci.side)
              mj == LastOwnMetric(cj.ticker, cj.side)
          IN /\ FGt(mi.win_rate, mj.win_rate)
             /\ FGt(mi.profit_factor, mj.profit_factor)

\* C23 as stated: the component of a candidate comes from the row of its own
\* (ticker, side) and is 0.5 without one, rows with a null ticker or side
\* change no score, and of two tickers with the same bar the one with the
\* higher winRate and profitFactor has the strictly higher score and sorts
\* first.
C23_MetricsFeedback ==
    (gPc \in {"select", "done"} /\ gComputed) =>
        /\ ComponentFromOwnRow
        /\ \A i, j \in 1..Len(gCandidates) :
              BetterTwin(i, j) =>
                  /\ gCandidates[i].score.v > gCandidates[j].score.v
                  /\ SortKeyLt(gCandidates[i], gCandidates[j])

\* The part of C23 on twins alone
C23_TwinsStrict ==
    (gPc \in {"select", "done"} /\ gComputed) =>
        \A i, j \in 1..Len(gCandidates) :
            BetterTwin(i, j) =>
                /\ gCandidates[i].score.v > gCandidates[j].score.v
                /\ SortKeyLt(gCandidates[i], gCandidates[j])

\* The part of C23 on the component alone
C23_OwnRow ==
    (gPc \in {"select", "done"} /\ gComputed) => ComponentFromOwnRow

\* The number of signals the data-quality query counts as invalid
_check_signals_issues(signals) ==
    LET Count(P(_)) == Cardinality({i \in 1..Len(signals) : P(signals[i])})
        invalid_side(r) == r.side \notin {BUY, SELL}
        invalid_buy(r) == r.side = BUY /\ FLe(r.target, r.entry)
        invalid_buy_stop(r) == r.side = BUY /\ FLe(r.entry, r.stop)
        invalid_sell(r) == r.side = SELL /\ FLe(r.entry, r.target)
        invalid_sell_stop(r) == r.side = SELL /\ FLe(r.stop, r.entry)
    IN Count(invalid_side) + Count(invalid_buy) + Count(invalid_buy_stop)
       + Count(invalid_sell) + Count(invalid_sell_stop)

\* The signals built from a bar with close > 0
FromPositiveClose == SelectSeq(gSignals, LAMBDA sig : FGt(sig.close, Num(0)))

\* C27: under x_pct < 1, a BUY signal of a bar with close > 0 has
\* stop < entry < target and entry <= close, a SELL signal has
\* target < entry < stop and entry >= close, and the data-quality query
\* counts none of them as invalid.
C27_LevelsOnTheirSides ==
    (gPc = "done" /\ gComputed /\ gCfg.x_pct < PctScale) =>
        /\ \A i \in 1..Len(FromPositiveClose) :
              LET sig == FromPositiveClose[i]
              IN IF sig.side = BUY
                 THEN /\ FLt(sig.stop, sig.entry) /\ FLt(sig.entry, sig.target)
                      /\ FLe(sig.entry, sig.close)
                 ELSE /\ sig.side = SELL
                      /\ FLt(sig.target, sig.entry) /\ FLt(sig.entry, sig.stop)
                      /\ FLe(sig.close, sig.entry)
        /\ _check_signals_issues(FromPositiveClose) = 0

\* C27 witness: a BUY and a SELL signal of bars with close > 0 under an
\* entry offset of 2 %.
C27_Witness ==
    /\ gPc = "done" /\ gComputed
    /\ gCfg.x_pct > 0 /\ gCfg.x_pct < PctScale
    /\ \E i, j \in 1..Len(FromPositiveClose) :
          /\ FromPositiveClose[i].side = BUY
          /\ FromPositiveClose[j].side = SELL

\* With x_pct >= 1 a BUY signal of a bar with close > 0 has its target at
\* or below its entry
C27_WitnessLargeOffset ==
    /\ gPc = "done" /\ gComputed
    /\ gCfg.x_pct >= PctScale
    /\ _check_signals_issues(FromPositiveClose) > 0

InUnitRange(score) == IsNum(score) /\ 0 <= score.v /\ score.v <= ScoreScale

\* C6: the score of every candidate, and of every returned signal, is a
\* number in [0, 1].
C6_ScoreInUnitRange ==
    /\ \A i \in 1..Len(gCandidates) : InUnitRange(gCandidates[i].score)
    /\ \A i \in 1..Len(gSignals) : InUnitRange(gSignals[i].score)

\* C6 witness: a turnover that is NaN scores 1, and a zero turnover with a
\* negative traded quantity, a wide range and a history without wins scores 0.
C6_Witness ==
    /\ gPc = "done"
    /\ \E i \in 1..Len(gCandidates) : gCandidates[i].score = Num(0)
    /\ \E i \in 1..Len(gCandidates) :
          gCandidates[i].score = Num(ScoreScale) /\ IsNaN(gCandidates[i].volume)
    /\ \E i \in 1..Len(gRows) :
          gRows[i].volume_financeiro = Num(0) /\ FLt(gRows[i].qtd_negociada, Num(0))

\* C8: once the configuration has been checked, an invalid configuration has
\* raised, nothing has been computed and nothing is returned.
C8_InvalidConfigRaises ==
    (gPc \in {"prepare", "select", "done", "raised"} /\ ~ValidConfig(gCfg)) =>
        (gPc = "raised" /\ ~gComputed /\ gSignals = <<>>)

\* C9: with a valid configuration, a bar set that is empty or becomes empty
\* after normalisation never raises, yields no candidate and returns [].
C9_EmptyInputReturnsEmpty ==
    (ValidConfig(gCfg) /\ EmptyAfterNormalization(gRows)) =>
        /\ gPc \in {"start", "prepare", "select", "done"}
        /\ gCandidates = <<>>
        /\ gSignals = <<>>

\* C9 witness: rows were given, all of them dropped by the normalisation.
C9_Witness ==
    /\ gPc = "done"
    /\ ValidConfig(gCfg)
    /\ Limit(gCfg.top_n) > 0
    /\ Len(gRows) >= 2
    /\ EmptyAfterNormalization(gRows)
    /\ gComputed
    /\ gSignals = <<>>

-----------------------------------------------------------------------------
(* _simulate_signal.  Prices are integers; a date is a day number. *)

MaxDate == 3

\* A division that raises ZeroDivisionError
Raise == [k |-> "raise", v |-> 0]
PyDiv(a, b) == IF b = 0 THEN Raise ELSE Num((a * ScoreScale) \div b)

\* seq[:n]
PySliceTo(seq, n) ==
    IF n >= 0 THEN SubSeq(seq, 1, IF n < Len(seq) THEN n ELSE Len(seq))
    ELSE SubSeq(seq, 1, Len(seq) + n)

\* sorted(ticker_candles.items()) filtered on bar.date >= valid_for
RECURSIVE DaysFrom(_, _, _)
DaysFrom(candles, d, valid_for) ==
    IF d > MaxDate THEN <<>>
    ELSE IF d \in DOMAIN candles /\ d >= valid_for
         THEN <<[date |-> d, high |-> candles[d].high, low |-> candles[d].low,
                 close |-> candles[d].close]>> \o DaysFrom(candles, d + 1, valid_for)
    ELSE DaysFrom(candles, d + 1, valid_for)

\* The days without the cut at the horizon
OrderedDays_Uncut(signal, candles) == DaysFrom(candles, 1, signal.valid_for)

OrderedDays(signal, candles) ==
    PySliceTo(DaysFrom(candles, 1, signal.valid_for), signal.horizon_days)

\* An entry that every bar touches
_entry_touched_Always(side, bar, entry) == TRUE

_entry_touched(side, bar, entry) ==
    IF side = SELL THEN bar.high >= entry ELSE bar.low <= entry

\* <<mfe, mae>>
_update_excursions(side, entry, day_high, day_low, mfe, mae) ==
    IF entry <= 0 THEN <<mfe, mae>>
    ELSE LET favorable == IF side = SELL THEN PyDiv(entry - day_low, entry)
                          ELSE PyDiv(day_high - entry, entry)
             adverse == IF side = SELL THEN PyDiv(entry - day_high, entry)
                        ELSE PyDiv(day_low - entry, entry)
         IN << IF IsNone(mfe) THEN favorable ELSE PyMax(mfe, favorable),
               IF IsNone(mae) THEN adverse ELSE PyMin(mae, adverse) >>

\* <<reason, price>>, <<"", None>> when the bar triggers no exit
\* The exit test with the target examined before the stop
_check_exit_TargetFirst(side, bar, target, stop) ==
    LET hit_stop == IF side = SELL THEN bar.high >= stop ELSE bar.low <= stop
        hit_target == IF side = SELL THEN bar.low <= target ELSE bar.high >= target
    IN IF hit_target THEN <<"TARGET", Num(target)>>
       ELSE IF hit_stop THEN <<"STOP", Num(stop)>>
       ELSE <<"", None>>

_check_exit(side, bar, target, stop) ==
    LET hit_stop == IF side = SELL THEN bar.high >= stop ELSE bar.low <= stop
        hit_target == IF side = SELL THEN bar.low <= target ELSE bar.high >= target
    IN IF hit_stop /\ hit_target THEN <<"STOP", Num(stop)>>
       ELSE IF hit_stop THEN <<"STOP", Num(stop)>>
       ELSE IF hit_target THEN <<"TARGET", Num(target)>>
       ELSE <<"", None>>

\* The return without the test of entry == 0
_compute_return_Unguarded(side, entry, exit_price) ==
    IF side = SELL THEN PyDiv(entry - exit_price, entry)
    ELSE PyDiv(exit_price - entry, entry)

\* The return computed as for a BUY whatever the side
_compute_return_Unsided(side, entry, exit_price) ==
    IF entry = 0 THEN Num(0) ELSE PyDiv(exit_price - entry, entry)

_compute_return(side, entry, exit_price) ==
    IF entry = 0 THEN Num(0)
    ELSE IF side = SELL THEN PyDiv(entry - exit_price, entry)
    ELSE PyDiv(exit_price - entry, entry)

Signal(side, levels, horizon_days, valid_for) ==
    [date_ref |-> 0, valid_for |-> valid_for, ticker |-> <<"A">>, side |-> side,
     entry |-> levels[1], target |-> levels[2], stop |-> levels[3],
     horizon_days |-> horizon_days]

\* entry, target, stop: the levels of a long and of a short around 2, the
\* same with the two sides of the entry swapped, an entry of zero, and the
\* levels of a long that no bar takes out
LevelInputs == {<<2, 3, 1>>, <<2, 1, 3>>, <<0, 1, 1>>, <<0, 0, 0>>, <<2, 4, 0>>}

SignalInputs ==
    {Signal(side, levels, h, v) : side \in {BUY, SELL}, levels \in LevelInputs,
                                  h \in {-1, 0, 1, 2, 3}, v \in 1..2}

DailyBar(low, high, close) == [high |-> high, low |-> low, close |-> close]

BarInputs ==
    {DailyBar(1, 1, 1), DailyBar(1, 2, 2), DailyBar(1, 3, 2), DailyBar(2, 2, 2),
     DailyBar(2, 3, 3), DailyBar(3, 3, 3)}

CandleInputs ==
    UNION {[dates -> BarInputs] : dates \in SUBSET (1..MaxDate)}

NoLocals ==
    [entry_hit |-> FALSE, entry_fill_date |-> None, exit_date |-> None,
     exit_reason |-> "NO_FILL", exit_price |-> None, return_pct |-> Num(0),
     mfe_pct |-> None, mae_pct |-> None, last_bar |-> <<>>]

SimInit ==
    /\ sSignal \in SignalInputs
    /\ sCandles \in CandleInputs
    /\ sPc = "start"
    /\ sDays = <<>>
    /\ sI = 1
    /\ sLoc = NoLocals
    /\ sTrade = <<>>

\* Lines 174-188
SimStart ==
    /\ sPc = "start"
    /\ sDays' = OrderedDays(sSignal, sCandles)
    /\ sPc' = "loop"
    /\ UNCHANGED <<sSignal, sCandles, sI, sLoc, sTrade>>
    /\ UNCHANGED notSim

\* Lines 190-211: one iteration of the loop over ordered_days
SimBar ==
    /\ sPc = "loop"
    /\ sI <= Len(sDays)
    /\ LET bar == sDays[sI]
           touched == ~sLoc.entry_hit /\ _entry_touched(sSignal.side, bar, sSignal.entry)
           entry_hit == sLoc.entry_hit \/ touched
           exc == _update_excursions(sSignal.side, sSignal.entry, bar.high, bar.low,
                                     sLoc.mfe_pct, sLoc.mae_pct)
           exit == _check_exit(sSignal.side, bar, sSignal.target, sSignal.stop)
           l1 == [sLoc EXCEPT !.last_bar = <<bar>>,
                              !.entry_hit = entry_hit,
                              !.entry_fill_date = IF touched THEN Num(bar.date) ELSE @]
       IN IF ~entry_hit
          THEN /\ sLoc' = l1
               /\ sI' = sI + 1
               /\ sPc' = "loop"
          ELSE IF exit[1] # ""
          THEN /\ sLoc' = [l1 EXCEPT !.mfe_pct = exc[1], !.mae_pct = exc[2],
                                     !.exit_reason = exit[1], !.exit_price = exit[2],
                                     !.exit_date = Num(bar.date)]
               /\ sI' = sI
               /\ sPc' = "finish"
          ELSE /\ sLoc' = [l1 EXCEPT !.mfe_pct = exc[1], !.mae_pct = exc[2]]
               /\ sI' = sI + 1
               /\ sPc' = "loop"
    /\ UNCHANGED <<sSignal, sCandles, sDays, sTrade>>
    /\ UNCHANGED notSim

\* The loop ends with the last bar
SimLoopEnd ==
    /\ sPc = "loop"
    /\ sI > Len(sDays)
    /\ sPc' = "finish"
    /\ UNCHANGED <<sSignal, sCandles, sDays, sI, sLoc, sTrade>>
    /\ UNCHANGED notSim

\* The end of the simulation without the EXPIRE case
Resolve_NoExpire(signal, days, loc) ==
    LET l2 == IF days = <<>> THEN [loc EXCEPT !.exit_reason = "NO_DATA"] ELSE loc
    IN IF l2.entry_hit /\ ~IsNone(l2.exit_price)
       THEN [l2 EXCEPT !.return_pct =
                           _compute_return(signal.side, signal.entry, l2.exit_price.v)]
       ELSE IF ~l2.entry_hit THEN [l2 EXCEPT !.return_pct = Num(0)]
       ELSE l2

\* The end of the simulation without the NO_DATA case
Resolve_NoData(signal, days, loc) ==
    LET expire == loc.entry_hit /\ IsNone(loc.exit_price)
        l1 == IF expire
              THEN [loc EXCEPT !.exit_reason = "EXPIRE",
                               !.exit_price = IF loc.last_bar # <<>>
                                              THEN Num(loc.last_bar[1].close) ELSE @,
                               !.exit_date = IF loc.last_bar # <<>>
                                             THEN Num(loc.last_bar[1].date) ELSE @]
              ELSE loc
    IN IF l1.entry_hit /\ ~IsNone(l1.exit_price)
       THEN [l1 EXCEPT !.return_pct =
                           _compute_return(signal.side, signal.entry, l1.exit_price.v)]
       ELSE IF ~l1.entry_hit THEN [l1 EXCEPT !.return_pct = Num(0)]
       ELSE l1

\* Lines 212-222
Resolve(signal, days, loc) ==
    LET expire == loc.entry_hit /\ IsNone(loc.exit_price)
        l1 == IF expire
              THEN [loc EXCEPT !.exit_reason = "EXPIRE",
                               !.exit_price = IF loc.last_bar # <<>>
                                              THEN Num(loc.last_bar[1].close) ELSE @,
                               !.exit_date = IF loc.last_bar # <<>>
                                             THEN Num(loc.last_bar[1].date) ELSE @]
              ELSE loc
        l2 == IF days = <<>> THEN [l1 EXCEPT !.exit_reason = "NO_DATA"] ELSE l1
    IN IF l2.entry_hit /\ ~IsNone(l2.exit_price)
       THEN [l2 EXCEPT !.return_pct =
                           _compute_return(signal.side, signal.entry, l2.exit_price.v)]
       ELSE IF ~l2.entry_hit THEN [l2 EXCEPT !.return_pct = Num(0)]
       ELSE l2

\* Lines 223-241
BacktestTrade(signal, loc) ==
    [date_ref |-> signal.date_ref, valid_for |-> signal.valid_for,
     ticker |-> signal.ticker, side |-> signal.side, entry |-> signal.entry,
     target |-> signal.target, stop |-> signal.stop,
     horizon_days |-> signal.horizon_days, entry_hit |-> loc.entry_hit,
     entry_fill_date |-> loc.entry_fill_date, exit_date |-> loc.exit_date,
     exit_reason |-> loc.exit_reason, exit_price |-> loc.exit_price,
     return_pct |-> loc.return_pct, mfe_pct |-> loc.mfe_pct, mae_pct |-> loc.mae_pct]

Raises(loc) ==
    loc.return_pct = Raise \/ loc.mfe_pct = Raise \/ loc.mae_pct = Raise

SimFinish ==
    /\ sPc = "finish"
    /\ LET loc == Resolve(sSignal, sDays, sLoc)
       IN /\ sLoc' = loc
          /\ IF Raises(loc)
             THEN sPc' = "raised" /\ sTrade' = <<>>
             ELSE sPc' = "done" /\ sTrade' = <<BacktestTrade(sSignal, loc)>>
    /\ UNCHANGED <<sSignal, sCandles, sDays, sI>>
    /\ UNCHANGED notSim

SimNext == SimStart \/ SimBar \/ SimLoopEnd \/ SimFinish

\* Lines 190-211 as a function: the locals after the loop over ordered_days
\* taken from the bar at index i
RECURSIVE SimLoop(_, _, _, _)
SimLoop(signal, days, i, loc) ==
    IF i > Len(days) THEN loc
    ELSE LET bar == days[i]
             touched == ~loc.entry_hit /\ _entry_touched(signal.side, bar, signal.entry)
             entry_hit == loc.entry_hit \/ touched
             exc == _update_excursions(signal.side, signal.entry, bar.high, bar.low,
                                       loc.mfe_pct, loc.mae_pct)
             exit == _check_exit(signal.side, bar, signal.target, signal.stop)
             l1 == [loc EXCEPT !.last_bar = <<bar>>,
                               !.entry_hit = entry_hit,
                               !.entry_fill_date = IF touched THEN Num(bar.date) ELSE @]
         IN IF ~entry_hit THEN SimLoop(signal, days, i + 1, l1)
            ELSE IF exit[1] # ""
            THEN [l1 EXCEPT !.mfe_pct = exc[1], !.mae_pct = exc[2],
                            !.exit_reason = exit[1], !.exit_price = exit[2],
                            !.exit_date = Num(bar.date)]
            ELSE SimLoop(signal, days, i + 1,
                         [l1 EXCEPT !.mfe_pct = exc[1], !.mae_pct = exc[2]])

\* Lines 170-241 as a function of the signal and the candles of its ticker
_simulate_signal(signal, ticker_candles) ==
    LET ordered_days == OrderedDays(signal, ticker_candles)
    IN BacktestTrade(signal,
                     Resolve(signal, ordered_days,
                             SimLoop(signal, ordered_days, 1, NoLocals)))

-----------------------------------------------------------------------------
(* Properties of _simulate_signal, checked under SpecSim *)

ExitReasons == {"TARGET", "STOP", "EXPIRE", "NO_FILL", "NO_DATA"}

\* The bar's range reaches the stop and the target of the signal
TouchesBoth(signal, bar) ==
    IF signal.side = SELL
    THEN bar.high >= signal.stop /\ bar.low <= signal.target
    ELSE bar.low <= signal.stop /\ bar.high >= signal.target

\* The loop has examined the bar at index j of ordered_days
Examined(j) == j < sI \/ (j = sI /\ sPc \in {"finish", "done", "raised"})

\* C2: the simulation never raises, it can always take its next step until
\* it has returned, and the trade it returns carries one of the five exit
\* reasons.
C2_SimulationTotal ==
    /\ sPc # "raised"
    /\ sPc = "done" \/ ENABLED SimNext
    /\ sPc = "done" =>
          /\ Len(sTrade) = 1
          /\ sTrade[1].exit_reason \in ExitReasons

\* C2 witness: a signal with entry 0 is filled in a window shorter than its
\* horizon and a trade is returned.
C2_Witness ==
    /\ sPc = "done"
    /\ sSignal.entry = 0
    /\ sTrade[1].entry_hit
    /\ ~IsNone(sTrade[1].exit_price)
    /\ Len(sDays) < sSignal.horizon_days

\* C3: every examined bar on or after the fill whose range reaches both the
\* stop and the target is the exit bar, and the exit is a STOP at the stop
\* price; the returned trade says the same.
C3_StopBeforeTarget ==
    \A j \in 1..Len(sDays) :
        ( /\ Examined(j)
          /\ ~IsNone(sLoc.entry_fill_date)
          /\ sDays[j].date >= sLoc.entry_fill_date.v
          /\ TouchesBoth(sSignal, sDays[j]) ) =>
            /\ sLoc.exit_reason = "STOP"
            /\ sLoc.exit_price = Num(sSignal.stop)
            /\ sLoc.exit_date = Num(sDays[j].date)
            /\ sPc = "done" =>
                  /\ sTrade[1].exit_reason = "STOP"
                  /\ sTrade[1].exit_price = Num(sSignal.stop)

\* C3 witness: a trade filled on one bar meets, on a later bar, a range that
\* spans a stop and a target on opposite sides of the entry.
C3_Witness ==
    /\ sPc = "done"
    /\ sSignal.stop # sSignal.target
    /\ sTrade[1].entry_hit
    /\ sTrade[1].exit_date.v > sTrade[1].entry_fill_date.v
    /\ TouchesBoth(sSignal, sDays[sI])
    /\ sTrade[1].exit_reason = "STOP"

Positive(x) == IsNum(x) /\ x.v > 0
Negative(x) == IsNum(x) /\ x.v < 0

\* C4 as stated: a BUY closed at TARGET with target > entry > 0 has a
\* positive return; a BUY closed at STOP with stop < entry, and a SELL closed
\* at STOP with stop > entry, have a negative return.
C4_SignAsStated ==
    sPc = "done" =>
        LET t == sTrade[1]
        IN /\ (t.side = BUY /\ t.exit_reason = "TARGET"
                 /\ t.target > t.entry /\ t.entry > 0) => Positive(t.return_pct)
           /\ (t.side = BUY /\ t.exit_reason = "STOP"
                 /\ t.stop < t.entry) => Negative(t.return_pct)
           /\ (t.side = SELL /\ t.exit_reason = "STOP"
                 /\ t.stop > t.entry) => Negative(t.return_pct)

\* C4 amended: the same three cases, each with entry > 0; with entry = 0 the
\* return is 0 whatever the exit.
C4_SignWithPositiveEntry ==
    sPc = "done" =>
        LET t == sTrade[1]
        IN /\ (t.side = BUY /\ t.exit_reason = "TARGET"
                 /\ t.target > t.entry /\ t.entry > 0) => Positive(t.return_pct)
           /\ (t.side = BUY /\ t.exit_reason = "STOP"
                 /\ t.stop < t.entry /\ t.entry > 0) => Negative(t.return_pct)
           /\ (t.side = SELL /\ t.exit_reason = "STOP"
                 /\ t.stop > t.entry /\ t.entry > 0) => Negative(t.return_pct)
           /\ t.entry = 0 => t.return_pct = Num(0)

\* C4 witness: a SELL with 0 < entry < stop is filled and stopped out.
C4_Witness ==
    /\ sPc = "done"
    /\ sTrade[1].side = SELL
    /\ sTrade[1].exit_reason = "STOP"
    /\ sTrade[1].entry > 0
    /\ sTrade[1].stop > sTrade[1].entry
    /\ Negative(sTrade[1].return_pct)

\* The dates of the window: the first horizon_days dates of the candles on
\* or after valid_for (a horizon is positive in every payload that
\* from_mapping admits; a horizon of 0 gives the empty window)
WindowDates(signal, candles) ==
    {d \in DOMAIN candles :
        /\ d >= signal.valid_for
        /\ Cardinality({e \in DOMAIN candles : e >= signal.valid_for /\ e < d})
              < signal.horizon_days}

AgreeOnWindow(signal, c1, c2) ==
    /\ WindowDates(signal, c1) = WindowDates(signal, c2)
    /\ \A d \in WindowDates(signal, c1) : c1[d] = c2[d]

\* The candles with the bar of one date removed, added or changed
SingleEdits(candles) ==
    {[e \in DOMAIN candles \ {d} |-> candles[e]] : d \in DOMAIN candles}
    \cup {[e \in DOMAIN candles \cup {d} |-> IF e = d THEN b ELSE candles[e]] :
             d \in 1..MaxDate, b \in BarInputs}

\* C16: the simulated bars are the bars of the window in ascending date
\* order, and the trade is the same for candles that differ in one bar before
\* validFor or after the last bar of a full window (any set of such changes
\* is a chain of them).
C16_OnlyTheWindowCounts ==
    sSignal.horizon_days >= 0 =>
        /\ sPc \notin {"idle", "start"} =>
              /\ {sDays[j].date : j \in 1..Len(sDays)} = WindowDates(sSignal, sCandles)
              /\ \A j \in 1..Len(sDays) :
                    /\ sCandles[sDays[j].date] = DailyBar(sDays[j].low, sDays[j].high, sDays[j].close)
                    /\ j > 1 => sDays[j - 1].date < sDays[j].date
        /\ sPc = "done" =>
              /\ sTrade[1] = _simulate_signal(sSignal, sCandles)
              /\ \A c2 \in SingleEdits(sCandles) :
                    AgreeOnWindow(sSignal, sCandles, c2) =>
                        _simulate_signal(sSignal, c2) = sTrade[1]

\* C16 witness: a filled trade over a full window, with a bar before
\* validFor and a bar after the window that both reach the entry, the stop
\* and the target.
C16_Witness ==
    /\ sPc = "done"
    /\ sTrade[1].entry_hit
    /\ sSignal.stop # sSignal.target
    /\ Len(sDays) = sSignal.horizon_days
    /\ \E d \in DOMAIN sCandles :
          d < sSignal.valid_for /\ sCandles[d] = DailyBar(1, 3, 2)
    /\ \E d \in DOMAIN sCandles :
          d > sDays[Len(sDays)].date /\ sCandles[d] = DailyBar(1, 3, 2)

\* The bar of the candles reaches the entry of the signal
ReachesEntry(signal, bar) ==
    IF signal.side = SELL THEN bar.high >= signal.entry ELSE bar.low <= signal.entry

\* The bar of the candles reaches the stop or the target of the signal
ReachesExit(signal, bar) ==
    IF signal.side = SELL
    THEN bar.high >= signal.stop \/ bar.low <= signal.target
    ELSE bar.low <= signal.stop \/ bar.high >= signal.target

\* The dates of the window whose bar reaches the entry
EntryDates == {d \in WindowDates(sSignal, sCandles) : ReachesEntry(sSignal, sCandles[d])}

\* The dates of the window, from the fill on, whose bar reaches the stop or
\* the target
ExitDates ==
    {d \in WindowDates(sSignal, sCandles) :
        /\ EntryDates # {}
        /\ \E e \in EntryDates : e <= d
        /\ ReachesExit(sSignal, sCandles[d])}

Earliest(dates) == CHOOSE d \in dates : \A e \in dates : d <= e
Latest(dates) == CHOOSE d \in dates : \A e \in dates : e <= d

\* C17: entryHit is true exactly when a bar of the window reaches the entry;
\* entryFillDate is then the date of the first such bar, and no exit is taken
\* on a bar before it: the loop examines no exit before the fill, and the
\* trade exits on or after the fill date.
C17_EntryOnFirstTouch ==
    sSignal.horizon_days >= 0 =>
        /\ (IsNone(sLoc.entry_fill_date) /\ sPc \in {"loop", "finish"}) =>
              /\ sLoc.exit_reason = "NO_FILL"
              /\ IsNone(sLoc.exit_price) /\ IsNone(sLoc.exit_date)
        /\ sPc = "done" =>
              LET t == sTrade[1]
              IN /\ t.entry_hit <=> (EntryDates # {})
                 /\ t.entry_hit => t.entry_fill_date = Num(Earliest(EntryDates))
                 /\ ~t.entry_hit => IsNone(t.entry_fill_date)
                 /\ ~IsNone(t.exit_date) =>
                       (t.entry_hit /\ t.exit_date.v >= t.entry_fill_date.v)

\* C17 witness: a bar of the window reaches the stop or the target without
\* reaching the entry, and the trade is filled on a later bar.
C17_Witness ==
    /\ sPc = "done"
    /\ sSignal.horizon_days >= 0
    /\ sTrade[1].entry_hit
    /\ \E d \in WindowDates(sSignal, sCandles) :
          /\ d < sTrade[1].entry_fill_date.v
          /\ ReachesExit(sSignal, sCandles[d])

\* C18: a filled trade with no bar from the fill to the end of the window
\* that reaches the stop or the target ends as EXPIRE at the close and the
\* date of the last bar of the window; otherwise it exits as STOP or TARGET
\* on the first such bar, and the bars after that one have no effect: the
\* trade is the one of the candles cut after the exit bar.
C18_ExpireOrFirstExit ==
    (sSignal.horizon_days >= 0 /\ sPc = "done" /\ EntryDates # {}) =>
        LET t == sTrade[1]
            last == Latest(WindowDates(sSignal, sCandles))
        IN IF ExitDates = {}
           THEN /\ t.exit_reason = "EXPIRE"
                /\ t.exit_price = Num(sCandles[last].close)
                /\ t.exit_date = Num(last)
           ELSE /\ t.exit_reason \in {"STOP", "TARGET"}
                /\ t.exit_date = Num(Earliest(ExitDates))
                /\ t.exit_price = Num(IF t.exit_reason = "STOP" THEN sSignal.stop
                                      ELSE sSignal.target)
                /\ t = _simulate_signal(sSignal,
                          [d \in {e \in DOMAIN sCandles : e <= Earliest(ExitDates)}
                              |-> sCandles[d]])

\* C18 witness: a trade filled before the last bar of its window expires at
\* that bar, whose close is not the close of the fill bar.
C18_Witness ==
    /\ sPc = "done"
    /\ sSignal.horizon_days >= 0
    /\ sTrade[1].exit_reason = "EXPIRE"
    /\ sTrade[1].entry_fill_date.v < sTrade[1].exit_date.v
    /\ sCandles[sTrade[1].exit_date.v].close # sCandles[sTrade[1].entry_fill_date.v].close

\* A trade exits on a bar after its fill and before the last bar of its
\* window
C18_WitnessFirstExit ==
    /\ sPc = "done"
    /\ sSignal.horizon_days >= 0
    /\ sTrade[1].exit_reason \in {"STOP", "TARGET"}
    /\ sTrade[1].entry_fill_date.v < sTrade[1].exit_date.v
    /\ sTrade[1].exit_date.v < Latest(WindowDates(sSignal, sCandles))

\* C19: an empty window gives NO_DATA, a window none of whose bars reaches
\* the entry gives NO_FILL; in both cases entryHit is false, returnPct is 0
\* and the fill date, the exit date, the exit price and the two excursions
\* are null.
C19_NoDataNoFill ==
    (sSignal.horizon_days >= 0 /\ sPc = "done" /\ EntryDates = {}) =>
        LET t == sTrade[1]
        IN /\ t.exit_reason = IF WindowDates(sSignal, sCandles) = {} THEN "NO_DATA"
                               ELSE "NO_FILL"
           /\ ~t.entry_hit
           /\ t.return_pct = Num(0)
           /\ IsNone(t.entry_fill_date) /\ IsNone(t.exit_date) /\ IsNone(t.exit_price)
           /\ IsNone(t.mfe_pct) /\ IsNone(t.mae_pct)

\* C19 witness: the candles hold bars, all of them before validFor, one of
\* which reaches the entry, and the trade is NO_DATA.
C19_Witness ==
    /\ sPc = "done"
    /\ sSignal.horizon_days > 0
    /\ DOMAIN sCandles # {}
    /\ \E d \in DOMAIN sCandles : ReachesEntry(sSignal, sCandles[d])
    /\ sTrade[1].exit_reason = "NO_DATA"

\* C26: a trade has entryHit false exactly when its exit reason is NO_FILL
\* or NO_DATA; a filled trade ends as TARGET, STOP or EXPIRE, has a fill
\* date, an exit date and an exit price with validFor <= fill date <= exit
\* date, and its exit price is the stop for STOP, the target for TARGET and
\* the close of the bar of its exit date for EXPIRE.
C26_TradeConsistent ==
    sPc = "done" =>
        LET t == sTrade[1]
        IN /\ ~t.entry_hit <=> t.exit_reason \in {"NO_FILL", "NO_DATA"}
           /\ t.entry_hit =>
                 /\ t.exit_reason \in {"TARGET", "STOP", "EXPIRE"}
                 /\ IsNum(t.entry_fill_date) /\ IsNum(t.exit_date) /\ IsNum(t.exit_price)
                 /\ t.valid_for <= t.entry_fill_date.v
                 /\ t.entry_fill_date.v <= t.exit_date.v
                 /\ t.exit_reason = "STOP" => t.exit_price = Num(t.stop)
                 /\ t.exit_reason = "TARGET" => t.exit_price = Num(t.target)
                 /\ t.exit_reason = "EXPIRE" =>
                       /\ t.exit_date.v \in DOMAIN sCandles
                       /\ t.exit_price = Num(sCandles[t.exit_date.v].close)

\* C26 witness: a trade filled after validFor expires on a later bar at a
\* close that is neither its stop nor its target.
C26_Witness ==
    /\ sPc = "done"
    /\ sTrade[1].entry_hit
    /\ sTrade[1].exit_reason = "EXPIRE"
    /\ sTrade[1].valid_for < sTrade[1].entry_fill_date.v
    /\ sTrade[1].entry_fill_date.v < sTrade[1].exit_date.v
    /\ sTrade[1].exit_price.v \notin {sTrade[1].stop, sTrade[1].target}

\* A window with bars none of which reaches the entry, one of which reaches
\* the target
C19_WitnessNoFill ==
    /\ sPc = "done"
    /\ sSignal.horizon_days > 0
    /\ \E d \in WindowDates(sSignal, sCandles) : ReachesExit(sSignal, sCandles[d])
    /\ sTrade[1].exit_reason = "NO_FILL"

-----------------------------------------------------------------------------
(* SignalPayload.from_mapping.  A value of the mapping is absent, None, a  *)
(* number, NaN, a string (k = "str"), a string that is neither a date nor  *)
(* a number (Text), a date, a datetime, or a "%Y-%m-%d" string (datestr).  *)

Absent == [k |-> "absent", v |-> 0]
S(s) == [k |-> "str", v |-> s]
Date(d) == [k |-> "date", v |-> d]
DateTime(d) == [k |-> "datetime", v |-> d]
DateStr(d) == [k |-> "datestr", v |-> d]

\* row.get(key): None when the key is absent
Get(x) == IF x.k = "absent" THEN None ELSE x

\* row.get(key, default)
GetOr(x, default) == IF x.k = "absent" THEN default ELSE x

\* bool(x) of a mapping value
MapTruthy(x) ==
    CASE x.k \in {"absent", "none"} -> FALSE
      [] x.k = "num" -> x.v # 0
      [] x.k = "str" -> x.v # <<>>
      [] OTHER -> TRUE

MapOr(a, b) == IF MapTruthy(a) THEN a ELSE b

\* str(x) of None or of a string
MapStr(x) == IF x.k = "none" THEN <<"N", "o", "n", "e">> ELSE x.v

\* Lines 64-70 and 71-77: a datetime or a date is taken as it is, anything
\* else goes through strptime(str(raw), "%Y-%m-%d")
ParseDate(raw) ==
    IF raw.k \in {"date", "datetime", "datestr"} THEN Num(raw.v) ELSE Raise

\* int(x)
PyInt(x) == IF x.k = "num" THEN x ELSE Raise

\* float(x)
PyFloat(x) == IF x.k \in {"num", "nan"} THEN x ELSE Raise

\* Line 78
EffectiveHorizon(row) == MapOr(MapOr(Get(row.horizon_days), Get(row.horizon)), Num(0))

\* Lines 57-91; Raise when the code raises
from_mapping(row) ==
    LET ticker == StrUpper(StrStrip(MapStr(GetOr(row.ticker, S(<<>>)))))
        side_raw == StrUpper(StrStrip(MapStr(GetOr(row.side, S(<<>>)))))
        side == IF side_raw # <<>> THEN side_raw ELSE BUY
        date_ref == ParseDate(Get(row.date_ref))
        valid_for == ParseDate(MapOr(Get(row.valid_for), Get(row.entrada_em)))
        horizon == PyInt(EffectiveHorizon(row))
        entry == PyFloat(MapOr(GetOr(row.entry, Num(0)), Num(0)))
        target == PyFloat(MapOr(GetOr(row.target, Num(0)), Num(0)))
        stop == PyFloat(MapOr(GetOr(row.stop, Num(0)), Num(0)))
    IN IF ticker = <<>> THEN Raise
       ELSE IF Raise \in {date_ref, valid_for, horizon} THEN Raise
       ELSE IF horizon.v <= 0 THEN Raise
       ELSE IF Raise \in {entry, target, stop} THEN Raise
       ELSE [date_ref |-> date_ref.v, valid_for |-> valid_for.v, ticker |-> ticker,
             side |-> side, entry |-> entry, target |-> target, stop |-> stop,
             horizon_days |-> horizon.v]

RowInputs ==
    [ticker : {Absent, None, S(<<>>), S(<<" ">>), S(<<"a", " ">>), S(<<"A">>)},
     side : {Absent, S(<<"s", "e", "l", "l", " ">>)},
     date_ref : {Date(1), DateStr(1), None, Text},
     valid_for : {Date(2), None},
     entrada_em : {Absent, DateTime(2)},
     horizon_days : {Absent, None, Num(0), Num(-2), Num(3), NaN, Text},
     horizon : {Absent, Num(0), Num(5)},
     entry : {Absent, Num(2), Text},
     target : {Num(3)},
     stop : {NaN}]

ParseInit ==
    /\ pRow \in RowInputs
    /\ pPc = "start"
    /\ pPayload = <<>>

\* One call of from_mapping that returns
ParseReturn ==
    /\ pPc = "start"
    /\ from_mapping(pRow) # Raise
    /\ pPayload' = <<from_mapping(pRow)>>
    /\ pPc' = "done"
    /\ UNCHANGED pRow
    /\ UNCHANGED notParse

\* One call of from_mapping that raises
ParseRaise ==
    /\ pPc = "start"
    /\ from_mapping(pRow) = Raise
    /\ pPc' = "raised"
    /\ UNCHANGED <<pRow, pPayload>>
    /\ UNCHANGED notParse

ParseNext == ParseReturn \/ ParseRaise

-----------------------------------------------------------------------------
(* Properties of SignalPayload.from_mapping, checked under SpecParse *)

\* The ticker is missing (absent or None), empty or whitespace
TickerMissingOrBlank(row) ==
    \/ row.ticker.k \in {"absent", "none"}
    \/ row.ticker.k = "str" /\ \A i \in 1..Len(row.ticker.v) : row.ticker.v[i] = " "

\* The horizon of the record, horizon_days or else horizon, is missing or
\* is a number <= 0
HorizonNotPositive(row) ==
    LET h == EffectiveHorizon(row) IN h.k = "num" /\ h.v <= 0

\* A date or a number of the record does not parse
Unparsable(row) ==
    \/ ~(row.date_ref.k \in {"date", "datetime", "datestr"})
    \/ ~(MapOr(Get(row.valid_for), Get(row.entrada_em)).k \in {"date", "datetime", "datestr"})
    \/ EffectiveHorizon(row).k # "num"
    \/ \E x \in {row.entry, row.target, row.stop} : x.k = "text"

IsUpperNonBlank(t) ==
    /\ t # <<>>
    /\ t = StrUpper(t)
    /\ \E i \in 1..Len(t) : t[i] # " "

\* C10: from_mapping fails whenever the ticker is missing, empty or
\* whitespace or the horizon is missing or <= 0; it fails only for a
\* malformed field; and a returned payload has a non-blank upper-case ticker
\* and horizon_days >= 1.
C10_FailsIffMalformed ==
    /\ (pPc # "start" /\ (TickerMissingOrBlank(pRow) \/ HorizonNotPositive(pRow)))
          => pPc = "raised"
    /\ pPc = "raised"
          => (TickerMissingOrBlank(pRow) \/ HorizonNotPositive(pRow) \/ Unparsable(pRow))
    /\ pPc = "done"
          => /\ IsUpperNonBlank(pPayload[1].ticker)
             /\ pPayload[1].horizon_days >= 1

-----------------------------------------------------------------------------
(* The two jobs over the store.  A run is one invocation of                *)
(* generate_eod_signals or of backtest_daily; each of its store operations *)
(* is one step, and a run may fail between any two of them.  What a run    *)
(* reads from outside the three tables (the clock, the calendar, the bars) *)
(* is an input of its first step.                                          *)

MaxRuns == 3
MaxRefDate == 2
METRICS_LOOKBACK_DAYS == 60

RefDates == 1..MaxRefDate
Procs == {1, 2}
\* The jobs are invoked one after another by one worker
Workers == {1}
TableNames == {"signals", "trades", "metrics"}

\* The lists of signals a run of the generator returns in the model: none,
\* one ticker, two tickers
SignalSets == {{}, {"A"}, {"A", "B"}}

NoRun == [kind |-> "none", date |-> 0, id |-> 0, signals |-> {}, trades |-> {},
          metrics |-> {}]

LogEntry(kind, date, status) ==
    [kind |-> kind, date |-> date, status |-> status, deleted |-> {},
     wrote |-> [t \in TableNames |-> {}]]

Partition(table, d) == {r \in table : r.date = d}

\* eod_signals/main.py, DELETE ... WHERE date_ref = @ref_date
\* A delete that removes no row
_delete_partition_Nothing(table, reference_date) == table
_delete_partition(table, reference_date) ==
    {r \in table : r.date # reference_date}

\* The rows of _persist_signals, each tagged with the run's job_run_id
SignalRows(signals, reference_date, run_id) ==
    {[date |-> reference_date, ticker |-> t, run |-> run_id] : t \in signals}

\* eod_signals/main.py: nothing is loaded when there is no row, else the
\* rows are appended (WRITE_APPEND)
_persist_signals(table, signals, reference_date, run_id) ==
    LET rows == SignalRows(signals, reference_date, run_id)
    IN IF rows = {} THEN table ELSE table \cup rows

\* A delete by date that removes no row
_delete_by_date_Nothing(table, date_value) == table

\* backtest_daily/main.py, DELETE ... WHERE <column> = @ref_date
_delete_by_date(table, date_value) == {r \in table : r.date # date_value}

\* backtest_daily/main.py: WRITE_APPEND of the rows, if any
_load_table(table, rows) == IF rows = {} THEN table ELSE table \cup rows

\* SELECT ... WHERE date_ref = @ref_date
_fetch_signals(table, reference_date) == Partition(table, reference_date)

\* SELECT ... WHERE date_ref BETWEEN @start_date AND @end_date
_fetch_trade_history(table, start_date, end_date) ==
    {r \in table : start_date <= r.date /\ r.date <= end_date}

\* run_backtest: one trade per signal, with the signal's date_ref and
\* ticker; the run's created_at tells its rows from those of other runs
TradeRows(signals, run_id) ==
    {[date |-> sg.date, ticker |-> sg.ticker, run |-> run_id, signal_run |-> sg.run] :
        sg \in signals}

\* compute_metrics: no row for an empty history, else one row for the whole
\* history and one per ticker, each counting the trades it aggregates
MetricRows(history, as_of_date, run_id) ==
    IF history = {} THEN {}
    ELSE LET row(key, subset) ==
                 [date |-> as_of_date, key |-> key, signals |-> Cardinality(subset),
                  run |-> run_id, basis |-> subset]
         IN {row("*", history)} \cup
            {row(t, {r \in history : r.ticker = t}) : t \in {r.ticker : r \in history}}

StoreInit ==
    /\ tSignals = {} /\ tTrades = {} /\ tMetrics = {}
    /\ rPc = [p \in Procs |-> "idle"]
    /\ rRun = [p \in Procs |-> NoRun]
    /\ nRuns = 0
    /\ hLog = <<>>

\* A job is invoked on a worker while no run is in progress
CanStart(p) ==
    /\ \A q \in Procs : rPc[q] = "idle"
    /\ nRuns < MaxRuns

Tables == <<tSignals, tTrades, tMetrics>>

\* A return that first empties the date's partitions of signals and trades
Returns_Deleting(p, kind, d, status) ==
    /\ nRuns' = nRuns + 1
    /\ hLog' = Append(hLog, LogEntry(kind, d, status))
    /\ tSignals' = _delete_partition(tSignals, d)
    /\ tTrades' = _delete_by_date(tTrades, d)
    /\ UNCHANGED <<tMetrics, rPc, rRun>>

\* A run that returns before its first store operation
Returns(p, kind, d, status) ==
    /\ nRuns' = nRuns + 1
    /\ hLog' = Append(hLog, LogEntry(kind, d, status))
    /\ UNCHANGED <<Tables, rPc, rRun>>

\* generate_eod_signals lines 372-386: before the cutoff without force, or
\* the reference date is no trading day
EodSkipped(p) ==
    /\ CanStart(p)
    /\ \E d \in RefDates : Returns(p, "eod", d, "skipped")
    /\ UNCHANGED notStore

\* Lines 412-445: no bar for the date, or none passes the volume filter
EodNoBars(p) ==
    /\ CanStart(p)
    /\ \E d \in RefDates, status \in {"empty", "filtered"} : Returns(p, "eod", d, status)
    /\ UNCHANGED notStore

\* Lines 447-488: the signals are generated
EodGenerate(p) ==
    /\ CanStart(p)
    /\ \E d \in RefDates, signals \in SignalSets :
          /\ rRun' = [rRun EXCEPT ![p] = [NoRun EXCEPT !.kind = "eod", !.date = d,
                                                       !.id = nRuns + 1,
                                                       !.signals = signals]]
          /\ hLog' = Append(hLog, LogEntry("eod", d, "running"))
    /\ nRuns' = nRuns + 1
    /\ rPc' = [rPc EXCEPT ![p] = "eod_delete"]
    /\ UNCHANGED Tables
    /\ UNCHANGED notStore

\* Line 490
EodDelete(p) ==
    /\ rPc[p] = "eod_delete"
    /\ tSignals' = _delete_partition(tSignals, rRun[p].date)
    /\ hLog' = [hLog EXCEPT ![rRun[p].id].deleted = @ \cup {"signals"}]
    /\ rPc' = [rPc EXCEPT ![p] = "eod_persist"]
    /\ UNCHANGED <<tTrades, tMetrics, rRun, nRuns>>
    /\ UNCHANGED notStore

\* Lines 491-518
EodPersist(p) ==
    /\ rPc[p] = "eod_persist"
    /\ tSignals' = _persist_signals(tSignals, rRun[p].signals, rRun[p].date, rRun[p].id)
    /\ hLog' = [hLog EXCEPT ![rRun[p].id].status = "ok",
                            ![rRun[p].id].wrote["signals"] =
                                SignalRows(rRun[p].signals, rRun[p].date, rRun[p].id)]
    /\ rPc' = [rPc EXCEPT ![p] = "idle"]
    /\ rRun' = [rRun EXCEPT ![p] = NoRun]
    /\ UNCHANGED <<tTrades, tMetrics, nRuns>>
    /\ UNCHANGED notStore

\* backtest_daily lines 173-181: the reference date is no trading day
BtSkipped(p) ==
    /\ CanStart(p)
    /\ \E d \in RefDates : Returns(p, "backtest", d, "skipped")
    /\ UNCHANGED notStore

\* Lines 183-188: the signal table has no row for the date
BtNoSignals(p) ==
    /\ CanStart(p)
    /\ \E d \in RefDates :
          /\ _fetch_signals(tSignals, d) = {}
          /\ Returns(p, "backtest", d, "empty")
    /\ UNCHANGED notStore

\* Lines 183-203: the signals of the date are read and simulated
BtSimulate(p) ==
    /\ CanStart(p)
    /\ \E d \in RefDates :
          /\ _fetch_signals(tSignals, d) # {}
          /\ rRun' = [rRun EXCEPT ![p] =
                         [NoRun EXCEPT !.kind = "backtest", !.date = d, !.id = nRuns + 1,
                                       !.trades = TradeRows(_fetch_signals(tSignals, d),
                                                            nRuns + 1)]]
          /\ hLog' = Append(hLog, LogEntry("backtest", d, "running"))
    /\ nRuns' = nRuns + 1
    /\ rPc' = [rPc EXCEPT ![p] = "bt_delete_trades"]
    /\ UNCHANGED Tables
    /\ UNCHANGED notStore

\* Lines 204-205
BtDeleteTrades(p) ==
    /\ rPc[p] = "bt_delete_trades"
    /\ tTrades' = _delete_by_date(tTrades, rRun[p].date)
    /\ hLog' = [hLog EXCEPT ![rRun[p].id].deleted = @ \cup {"trades"}]
    /\ rPc' = [rPc EXCEPT ![p] = "bt_load_trades"]
    /\ UNCHANGED <<tSignals, tMetrics, rRun, nRuns>>
    /\ UNCHANGED notStore

\* Lines 206-211
BtLoadTrades(p) ==
    /\ rPc[p] = "bt_load_trades"
    /\ tTrades' = _load_table(tTrades, rRun[p].trades)
    /\ hLog' = [hLog EXCEPT ![rRun[p].id].wrote["trades"] = rRun[p].trades]
    /\ rPc' = [rPc EXCEPT ![p] = "bt_history"]
    /\ UNCHANGED <<tSignals, tMetrics, rRun, nRuns>>
    /\ UNCHANGED notStore

\* Lines 213-215
BtHistory(p) ==
    /\ rPc[p] = "bt_history"
    /\ LET history == _fetch_trade_history(tTrades,
                          rRun[p].date - METRICS_LOOKBACK_DAYS, rRun[p].date)
       IN rRun' = [rRun EXCEPT ![p].metrics =
                       MetricRows(history, rRun[p].date, rRun[p].id)]
    /\ rPc' = [rPc EXCEPT ![p] = "bt_delete_metrics"]
    /\ UNCHANGED <<Tables, nRuns, hLog>>
    /\ UNCHANGED notStore

\* Lines 216-217
BtDeleteMetrics(p) ==
    /\ rPc[p] = "bt_delete_metrics"
    /\ tMetrics' = _delete_by_date(tMetrics, rRun[p].date)
    /\ hLog' = [hLog EXCEPT ![rRun[p].id].deleted = @ \cup {"metrics"}]
    /\ rPc' = [rPc EXCEPT ![p] = "bt_load_metrics"]
    /\ UNCHANGED <<tSignals, tTrades, rRun, nRuns>>
    /\ UNCHANGED notStore

\* Lines 218-240
BtLoadMetrics(p) ==
    /\ rPc[p] = "bt_load_metrics"
    /\ tMetrics' = _load_table(tMetrics, rRun[p].metrics)
    /\ hLog' = [hLog EXCEPT ![rRun[p].id].status = "ok",
                            ![rRun[p].id].wrote["metrics"] = rRun[p].metrics]
    /\ rPc' = [rPc EXCEPT ![p] = "idle"]
    /\ rRun' = [rRun EXCEPT ![p] = NoRun]
    /\ UNCHANGED <<tSignals, tTrades, nRuns>>
    /\ UNCHANGED notStore

\* A run fails between two of its steps (an exception of the store client
\* or of the parsing, or the function is killed)
RunFails(p) ==
    /\ rPc[p] # "idle"
    /\ hLog' = [hLog EXCEPT ![rRun[p].id].status = "failed"]
    /\ rPc' = [rPc EXCEPT ![p] = "idle"]
    /\ rRun' = [rRun EXCEPT ![p] = NoRun]
    /\ UNCHANGED <<Tables, nRuns>>
    /\ UNCHANGED notStore

StoreNext ==
    \E p \in Workers :
        \/ EodSkipped(p) \/ EodNoBars(p) \/ EodGenerate(p)
        \/ EodDelete(p) \/ EodPersist(p)
        \/ BtSkipped(p) \/ BtNoSignals(p) \/ BtSimulate(p)
        \/ BtDeleteTrades(p) \/ BtLoadTrades(p) \/ BtHistory(p)
        \/ BtDeleteMetrics(p) \/ BtLoadMetrics(p)
        \/ RunFails(p)

\* Two invocations of generate_eod_signals may run at the same time: the
\* function takes no lock, and its delete and its load are two jobs of the
\* store.  Lines 447-488 on process p while another run may be in progress
ConcEodGenerate(p) ==
    /\ rPc[p] = "idle"
    /\ nRuns < MaxRuns
    /\ \E d \in RefDates, signals \in SignalSets :
          /\ rRun' = [rRun EXCEPT ![p] = [NoRun EXCEPT !.kind = "eod", !.date = d,
                                                       !.id = nRuns + 1,
                                                       !.signals = signals]]
          /\ hLog' = Append(hLog, LogEntry("eod", d, "running"))
    /\ nRuns' = nRuns + 1
    /\ rPc' = [rPc EXCEPT ![p] = "eod_delete"]
    /\ UNCHANGED Tables
    /\ UNCHANGED notStore

ConcNext ==
    \E p \in Procs : ConcEodGenerate(p) \/ EodDelete(p) \/ EodPersist(p)

-----------------------------------------------------------------------------
(* Properties of the store, checked under SpecStore *)

TableOf(name) ==
    CASE name = "signals" -> tSignals
      [] name = "trades" -> tTrades
      [] name = "metrics" -> tMetrics

\* The job that writes the table
WriterOf(name) == IF name = "signals" THEN "eod" ELSE "backtest"

MaxOf(ids) == CHOOSE i \in ids : \A j \in ids : j <= i

\* The latest run of the table's job for the date that completed its
\* writes, 0 if there is none
LatestCompleted(name, d) ==
    LET ids == {i \in 1..Len(hLog) : /\ hLog[i].kind = WriterOf(name)
                                     /\ hLog[i].date = d
                                     /\ hLog[i].status = "ok"}
    IN IF ids = {} THEN 0 ELSE MaxOf(ids)

\* A run after run c has deleted from the partition and has not completed
Interrupted(name, d, c) ==
    \E j \in 1..Len(hLog) :
        j > c /\ hLog[j].date = d /\ name \in hLog[j].deleted

PartitionIsLatestRun ==
    \A name \in TableNames, d \in RefDates :
        LET c == LatestCompleted(name, d)
        IN ~Interrupted(name, d, c) =>
              Partition(TableOf(name), d) = IF c = 0 THEN {} ELSE hLog[c].wrote[name]

OtherDatesUntouched ==
    \A name \in TableNames, d \in RefDates :
        Partition(TableOf(name), d)' # Partition(TableOf(name), d) =>
            \E p \in Procs : rPc[p] # "idle" /\ rRun[p].date = d

BacktestOrder ==
    <<"bt_delete_trades", "bt_load_trades", "bt_history", "bt_delete_metrics",
      "bt_load_metrics">>

\* Process p goes from step i of BacktestOrder to the next one, or returns
\* after the last one
Advances(p, i) ==
    /\ rPc[p] = BacktestOrder[i]
    /\ rPc'[p] = IF i < Len(BacktestOrder) THEN BacktestOrder[i + 1] ELSE "idle"
    /\ i = Len(BacktestOrder) => hLog'[rRun[p].id].status = "ok"

BacktestStepsInOrder ==
    \A p \in Procs :
        LET D == rRun[p].date
        IN /\ (rPc[p] = "idle" /\ rPc'[p] \in {BacktestOrder[i] : i \in 1..5})
                 => rPc'[p] = BacktestOrder[1]
           /\ (rPc[p] \in {BacktestOrder[i] : i \in 1..5} /\ rPc'[p] # rPc[p])
                 => (rPc'[p] = "idle" \/ \E i \in 1..5 : Advances(p, i))
           /\ Advances(p, 1) =>
                 /\ Partition(tTrades', D) = {}
                 /\ UNCHANGED <<tSignals, tMetrics>>
           /\ Advances(p, 2) =>
                 /\ Partition(tTrades', D) = rRun[p].trades
                 /\ UNCHANGED <<tSignals, tMetrics>>
           /\ Advances(p, 3) =>
                 /\ UNCHANGED Tables
                 /\ \A m \in rRun'[p].metrics :
                       /\ m.date = D
                       /\ \A r \in m.basis : /\ r \in tTrades
                                              /\ D - METRICS_LOOKBACK_DAYS <= r.date
                                              /\ r.date <= D
           /\ Advances(p, 4) =>
                 /\ Partition(tMetrics', D) = {}
                 /\ UNCHANGED <<tSignals, tTrades>>
           /\ Advances(p, 5) =>
                 /\ Partition(tMetrics', D) = rRun[p].metrics
                 /\ UNCHANGED <<tSignals, tTrades>>

\* The trades of the date of a stored metric row that the row was computed
\* from are trades the same run wrote
MetricsFromOwnTrades ==
    \A m \in tMetrics :
        \A r \in m.basis : r.date = m.date => r.run = m.run

\* C29: a backtest run for date D deletes D's trades, inserts its trades,
\* reads the history of [D - lookback, D], deletes D's metrics and inserts
\* its metrics, in that order; the metrics stored for D are computed from
\* the trades of D that the same run wrote and from no trade of D of an
\* earlier run.
C29_BacktestStoreOrder ==
    []MetricsFromOwnTrades /\ [][BacktestStepsInOrder]_vars

\* C29 witness: two backtest runs for the same date have completed, and the
\* stored metrics are those of the second.
C29_Witness ==
    /\ Len(hLog) = 3
    /\ hLog[1].kind = "eod" /\ hLog[1].status = "ok"
    /\ hLog[2].kind = "backtest" /\ hLog[2].status = "ok"
    /\ hLog[3].kind = "backtest" /\ hLog[3].status = "ok"
    /\ hLog[2].date = hLog[3].date
    /\ hLog[2].wrote["trades"] # {}
    /\ tMetrics # {}
    /\ \A m \in tMetrics : m.run = 3 /\ m.basis = tTrades

\* C30: under every interleaving of two generator runs for one date, once
\* both have finished the signal table holds at most one row per date and
\* ticker and at most MAX_SIGNALS_PER_DAY rows for the date.
C30_OneRowPerTickerAfterConcurrentRuns ==
    (\A p \in Procs : rPc[p] = "idle") =>
        \A d \in RefDates :
            /\ \A r1, r2 \in Partition(tSignals, d) :
                  r1.ticker = r2.ticker => r1 = r2
            /\ Cardinality(Partition(tSignals, d)) <= MAX_SIGNALS_PER_DAY

\* The rows of a date are those of one completed run whenever no run is in
\* progress: what holds of runs that do not overlap
C30_Sequential ==
    (\A p \in Procs : rPc[p] = "idle") =>
        \A d \in RefDates :
            \A r1, r2 \in Partition(tSignals, d) : r1.run = r2.run

\* The statuses of a run that ends without output
NoOutput == {"skipped", "empty", "filtered"}

\* No row of a table was written by run i
NoRowOf(i) == \A name \in TableNames : \A r \in TableOf(name) : r.run # i

EndsWithoutOutput ==
    /\ Len(hLog') = Len(hLog) + 1
    /\ hLog'[Len(hLog')].status \in NoOutput

\* C28: a run that ends as skipped, empty or filtered has deleted from no
\* table and written to none, no table holds a row of it, and the step that
\* ends it leaves the three tables as they were.
C28_NoOutputNoWrite ==
    /\ [](\A i \in 1..Len(hLog) :
            hLog[i].status \in NoOutput =>
                /\ hLog[i].deleted = {}
                /\ \A name \in TableNames : hLog[i].wrote[name] = {}
                /\ NoRowOf(i))
    /\ [][EndsWithoutOutput => UNCHANGED Tables]_vars

\* C28 witness: after a generator run and a backtest run that stored rows
\* for a date, a generator run for that date ends without output and the
\* rows are still there.
C28_Witness ==
    /\ Len(hLog) = 3
    /\ hLog[1].kind = "eod" /\ hLog[1].status = "ok"
    /\ hLog[2].kind = "backtest" /\ hLog[2].status = "ok"
    /\ hLog[3].kind = "eod" /\ hLog[3].status \in NoOutput
    /\ \A i \in 1..3 : hLog[i].date = hLog[1].date
    /\ tSignals = hLog[1].wrote["signals"] /\ tSignals # {}
    /\ tTrades = hLog[2].wrote["trades"] /\ tTrades # {}
    /\ tMetrics # {}

-----------------------------------------------------------------------------
(* build_signal_payloads and build_candle_lookup: one loop over the rows   *)
(* of a batch, each row parsed by from_mapping.                            *)

MaxBatch == 3

\* DailyBar.from_mapping, lines 21-42; Raise when the code raises
DailyBar_from_mapping(row) ==
    LET ticker == StrUpper(StrStrip(MapStr(GetOr(row.ticker, S(<<>>)))))
        raw_date == MapOr(MapOr(Get(row.data_pregao), Get(row.date)),
                          Get(row.reference_date))
        trade_date == ParseDate(raw_date)
        open == PyFloat(MapOr(GetOr(row.open, Num(0)), Num(0)))
        high == PyFloat(MapOr(GetOr(row.high, Num(0)), Num(0)))
        low == PyFloat(MapOr(GetOr(row.low, Num(0)), Num(0)))
        close == PyFloat(MapOr(GetOr(row.close, Num(0)), Num(0)))
    IN IF ticker = <<>> THEN Raise
       ELSE IF trade_date = Raise THEN Raise
       ELSE IF Raise \in {open, high, low, close} THEN Raise
       ELSE [ticker |-> ticker, date |-> trade_date.v, open |-> open, high |-> high,
             low |-> low, close |-> close]

SignalRow(ticker, horizon_days) ==
    [ticker |-> ticker, side |-> Absent, date_ref |-> Date(1), valid_for |-> Date(2),
     entrada_em |-> Absent, horizon_days |-> horizon_days, horizon |-> Absent,
     entry |-> Num(2), target |-> Num(3), stop |-> Num(1)]

\* Two well-formed signal rows, one with a blank ticker, one with horizon 0
SignalRowPool ==
    {SignalRow(S(<<"a">>), Num(3)), SignalRow(S(<<"B">>), Num(1)),
     SignalRow(S(<<" ">>), Num(3)), SignalRow(S(<<"A">>), Num(0))}

CandleRow(ticker, data_pregao, close) ==
    [ticker |-> ticker, data_pregao |-> data_pregao, date |-> Absent,
     reference_date |-> Absent, open |-> Num(2), high |-> Num(3), low |-> None,
     close |-> close]

\* Two well-formed candle rows of one ticker and date, one with a blank
\* ticker, one without a date
CandleRowPool ==
    {CandleRow(S(<<"a">>), Date(1), Num(2)), CandleRow(S(<<"A", " ">>), DateStr(1), Num(3)),
     CandleRow(S(<<>>), Date(1), Num(2)), CandleRow(S(<<"A">>), None, Num(2))}

RECURSIVE SeqsUpTo(_, _)
SeqsUpTo(pool, n) ==
    IF n = 0 THEN {<<>>}
    ELSE LET shorter == SeqsUpTo(pool, n - 1)
         IN shorter \cup {Append(q, r) : q \in shorter, r \in pool}

BatchInit ==
    /\ \/ bKind = "signals" /\ bRows \in SeqsUpTo(SignalRowPool, MaxBatch) /\ bOut = <<>>
       \/ bKind = "candles" /\ bRows \in SeqsUpTo(CandleRowPool, MaxBatch) /\ bOut = {}
    /\ bI = 1
    /\ bPc = "loop"

\* The parse of one row of the batch
ParseRow(kind, row) ==
    IF kind = "signals" THEN from_mapping(row) ELSE DailyBar_from_mapping(row)

\* Line 153, payloads.append(...); line 144, grouped[ticker][date] = bar
Collect(kind, out, parsed) ==
    IF kind = "signals" THEN Append(out, parsed)
    ELSE {b \in out : ~(b.ticker = parsed.ticker /\ b.date = parsed.date)} \cup {parsed}

\* Lines 142-144 and 152-153: one iteration whose from_mapping returns
BatchRow ==
    /\ bPc = "loop"
    /\ bI <= Len(bRows)
    /\ ParseRow(bKind, bRows[bI]) # Raise
    /\ bOut' = Collect(bKind, bOut, ParseRow(bKind, bRows[bI]))
    /\ bI' = bI + 1
    /\ UNCHANGED <<bKind, bRows, bPc>>
    /\ UNCHANGED notBatch

\* One iteration whose from_mapping raises: the exception leaves the loop
\* and the function
BatchRaise ==
    /\ bPc = "loop"
    /\ bI <= Len(bRows)
    /\ ParseRow(bKind, bRows[bI]) = Raise
    /\ bPc' = "raised"
    /\ UNCHANGED <<bKind, bRows, bI, bOut>>
    /\ UNCHANGED notBatch

\* Lines 145 and 154: the return after the last row
BatchReturn ==
    /\ bPc = "loop"
    /\ bI > Len(bRows)
    /\ bPc' = "done"
    /\ UNCHANGED <<bKind, bRows, bI, bOut>>
    /\ UNCHANGED notBatch

BatchNext == BatchRow \/ BatchRaise \/ BatchReturn

-----------------------------------------------------------------------------
(* Properties of the batch parsers, checked under SpecBatch *)

WellFormed(kind, row) == ParseRow(kind, row) # Raise

WellFormedRows(kind, rows) == SelectSeq(rows, LAMBDA r : WellFormed(kind, r))

\* C11: a batch is aborted only when it has rows and all of them are
\* malformed; otherwise it returns, and what it returns holds the parse of
\* each well-formed row (every payload in order, every bar under its ticker
\* and date), the malformed rows being skipped.
C11_MalformedRowSkipped ==
    LET good == WellFormedRows(bKind, bRows)
    IN /\ bPc = "raised" => (bRows # <<>> /\ good = <<>>)
       /\ bPc = "done" =>
             IF bKind = "signals"
             THEN bOut = [i \in 1..Len(good) |-> from_mapping(good[i])]
             ELSE \A i \in 1..Len(good) :
                     \E b \in bOut :
                        /\ b.ticker = DailyBar_from_mapping(good[i]).ticker
                        /\ b.date = DailyBar_from_mapping(good[i]).date

-----------------------------------------------------------------------------
(* The trading calendar.  A date is a day number, day 0 a Monday, so that  *)
(* date.weekday() is the day number modulo 7.                              *)

MaxCalSpan == 7
MaxDelta == 2

CalBase == 2 * 7
CalDates == CalBase..(CalBase + MaxCalSpan)

\* The days a holiday set is drawn from: the Friday before the dates, a
\* Sunday, a Wednesday, a Friday, and the Monday and Tuesday after it
HolidayPool == {CalBase - 3, CalBase - 1, CalBase + 2, CalBase + 4, CalBase + 7,
                CalBase + 8}

Weekday(d) == d % 7

\* A variant that looks at the weekday only
is_trading_day_WeekdayOnly(date_value, holidays) == Weekday(date_value) < 5
\* Lines 35-41
is_trading_day(date_value, holidays) ==
    IF Weekday(date_value) >= 5 THEN FALSE ELSE date_value \notin holidays

CalInit ==
    /\ cOp \in {"next", "previous", "add"}
    /\ cDate \in CalDates
    /\ cHolidays \in SUBSET HolidayPool
    /\ cDelta \in IF cOp = "add" THEN (0 - MaxDelta)..MaxDelta ELSE {0}
    /\ cStep = 0
    /\ cCandidate = cDate
    /\ cRemaining = 0
    /\ cPc = "start"

\* Lines 50-51 and 64-65: candidate = date_value
CalSearchStart ==
    /\ cPc = "start"
    /\ cOp \in {"next", "previous"}
    /\ cStep' = IF cOp = "next" THEN 1 ELSE 0 - 1
    /\ cCandidate' = cDate
    /\ cPc' = "search"
    /\ UNCHANGED <<cOp, cDate, cHolidays, cDelta, cRemaining>>
    /\ UNCHANGED notCal

\* Lines 52-55 and 66-69: one iteration of `while True`
CalSearchStep ==
    /\ cPc = "search"
    /\ cCandidate' = cCandidate + cStep
    /\ cPc' = IF is_trading_day(cCandidate + cStep, cHolidays) THEN "done" ELSE "search"
    /\ UNCHANGED <<cOp, cDate, cHolidays, cDelta, cStep, cRemaining>>
    /\ UNCHANGED notCal

\* Lines 79-84 of add_trading_days: delta == 0 returns the date when it is a
\* trading day and calls next_trading_day when it is not; otherwise the
\* counting loop is set up
CalAddStart ==
    /\ cPc = "start"
    /\ cOp = "add"
    /\ cCandidate' = cDate
    /\ IF cDelta = 0
       THEN /\ cStep' = 1
            /\ cRemaining' = 0
            /\ cPc' = IF is_trading_day(cDate, cHolidays) THEN "done" ELSE "search"
       ELSE /\ cStep' = IF cDelta > 0 THEN 1 ELSE 0 - 1
            /\ cRemaining' = IF cDelta > 0 THEN cDelta ELSE 0 - cDelta
            /\ cPc' = "count"
    /\ UNCHANGED <<cOp, cDate, cHolidays, cDelta>>
    /\ UNCHANGED notCal

\* Lines 85-88: one iteration of `while remaining > 0`
CalCountStep ==
    /\ cPc = "count"
    /\ cRemaining > 0
    /\ cCandidate' = cCandidate + cStep
    /\ cRemaining' = IF is_trading_day(cCandidate + cStep, cHolidays)
                     THEN cRemaining - 1 ELSE cRemaining
    /\ UNCHANGED <<cOp, cDate, cHolidays, cDelta, cStep, cPc>>
    /\ UNCHANGED notCal

\* Line 89
CalCountReturn ==
    /\ cPc = "count"
    /\ cRemaining = 0
    /\ cPc' = "done"
    /\ UNCHANGED <<cOp, cDate, cHolidays, cDelta, cStep, cCandidate, cRemaining>>
    /\ UNCHANGED notCal

CalNext ==
    CalSearchStart \/ CalSearchStep \/ CalAddStart \/ CalCountStep \/ CalCountReturn

-----------------------------------------------------------------------------
(* Properties of the calendar, checked under SpecCal *)

\* A weekday that is no holiday
OpenDay(d, H) == ~(d % 7 \in {5, 6}) /\ d \notin H

\* No search has to look further than this from its date
SearchSpan == 2 * Cardinality(HolidayPool) + 3

Distance(a, b) == IF a >= b THEN a - b ELSE b - a

\* The earliest open day strictly after d, the latest strictly before d
EarliestAfter(d, H) ==
    CHOOSE r \in (d + 1)..(d + SearchSpan) :
        OpenDay(r, H) /\ \A x \in (d + 1)..(r - 1) : ~OpenDay(x, H)

LatestBefore(d, H) ==
    CHOOSE r \in (d - SearchSpan)..(d - 1) :
        OpenDay(r, H) /\ \A x \in (r + 1)..(d - 1) : ~OpenDay(x, H)

\* The single steps composed |delta| times in the sign of delta
RECURSIVE Composed(_, _, _)
Composed(d, delta, H) ==
    IF delta = 0 THEN d
    ELSE IF delta > 0 THEN Composed(EarliestAfter(d, H), delta - 1, H)
    ELSE Composed(LatestBefore(d, H), delta + 1, H)

\* C12: next_trading_day returns the earliest weekday outside the holiday
\* set strictly after the date, previous_trading_day the latest strictly
\* before it; the search stays within a bounded distance of the date, so it
\* ends.
C12_NearestTradingDay ==
    cOp \in {"next", "previous"} =>
        /\ cPc \in {"start", "search", "done"}
        /\ Distance(cCandidate, cDate) <= 2 * Cardinality(cHolidays) + 3
        /\ (cPc = "done" /\ cOp = "next") =>
              /\ cCandidate > cDate
              /\ OpenDay(cCandidate, cHolidays)
              /\ \A x \in (cDate + 1)..(cCandidate - 1) : ~OpenDay(x, cHolidays)
        /\ (cPc = "done" /\ cOp = "previous") =>
              /\ cCandidate < cDate
              /\ OpenDay(cCandidate, cHolidays)
              /\ \A x \in (cCandidate + 1)..(cDate - 1) : ~OpenDay(x, cHolidays)

\* C12 witness: from a Thursday, with the Friday and the following Monday
\* and Tuesday holidays, the next trading day is the Wednesday after.
C12_Witness ==
    /\ cPc = "done"
    /\ cOp = "next"
    /\ cDate % 7 = 3
    /\ {cDate + 1, cDate + 4, cDate + 5} \subseteq cHolidays
    /\ cCandidate = cDate + 6

\* C13 as stated: add_trading_days returns the single steps composed
\* |delta| times, the date itself when delta = 0.
C13_ComposedAsStated ==
    (cOp = "add" /\ cPc = "done") => cCandidate = Composed(cDate, cDelta, cHolidays)

\* C13 amended: for delta # 0 add_trading_days returns the single steps
\* composed |delta| times in the sign of delta; for delta = 0 it returns the
\* date when the date is a trading day, else the next trading day.
C13_ComposedOrNormalised ==
    (cOp = "add" /\ cPc = "done") =>
        cCandidate = IF cDelta # 0 THEN Composed(cDate, cDelta, cHolidays)
                     ELSE IF OpenDay(cDate, cHolidays) THEN cDate
                     ELSE EarliestAfter(cDate, cHolidays)

\* C13 witness: two sessions back from a date, over a weekend and a holiday.
C13_Witness ==
    /\ cPc = "done"
    /\ cOp = "add"
    /\ cDelta = 0 - 2
    /\ \E x \in (cCandidate + 1)..(cDate - 1) : x \in cHolidays /\ x % 7 < 5
    /\ \E x \in (cCandidate + 1)..(cDate - 1) : x % 7 = 6
    /\ cDate - cCandidate >= 5

-----------------------------------------------------------------------------
(* compute_metrics.  The return of a trade row is held in units of         *)
(* 1/PctScale; rates, factors and means are in units of 1/ScoreScale.      *)

MaxTrades == 3

TradeRow(ticker, side, horizon_days, entry_hit, return_pct, entry_fill_date, exit_date) ==
    [ticker |-> ticker, side |-> side, horizon_days |-> horizon_days,
     entry_hit |-> entry_hit, return_pct |-> return_pct,
     entry_fill_date |-> entry_fill_date, exit_date |-> exit_date]

\* entry_hit is True, False or None
Hit == [k |-> "bool", v |-> 1]
NoHit == [k |-> "bool", v |-> 0]

\* The rows a history is drawn from: a winner and two losers, an unfilled
\* trade, a filled trade with return 0, a filled trade without a return, a
\* trade without a horizon and a trade whose entry_hit is missing
TradePool ==
    {TradeRow(<<"A">>, BUY, Num(3), Hit, Num(5), Num(1), Num(2)),
     TradeRow(<<"B">>, SELL, Num(3), Hit, Num(0 - 2), Num(1), Num(3)),
     TradeRow(<<"a">>, <<"s", "e", "l", "l">>, Num(3), Hit, Num(0 - 3), Num(2), Num(2)),
     TradeRow(<<"A">>, BUY, Num(3), NoHit, Num(0), None, None),
     TradeRow(<<"A">>, BUY, Num(5), Hit, Num(0), Num(1), Num(1)),
     TradeRow(<<"B">>, BUY, Num(3), Hit, None, Num(1), None),
     TradeRow(<<"A">>, BUY, None, Hit, Num(5), Num(1), Num(2)),
     TradeRow(<<"B">>, SELL, Num(3), None, Num(4), None, None)}

\* Lines 310-319: the frame with its columns coerced
MetricsFrameRow(row) ==
    [ticker |-> StrUpper(row.ticker),
     side |-> StrUpper(row.side),
     horizon_days |-> ToNumeric(row.horizon_days),
     entry_hit |-> (row.entry_hit = Hit),
     return_pct |-> ToNumeric(row.return_pct),
     days_in_trade |-> FAdd(FSub(ToNumeric(row.exit_date), ToNumeric(row.entry_fill_date)),
                            Num(1))]

MetricsFrame(rows) == [i \in 1..Len(rows) |-> MetricsFrameRow(rows[i])]

\* The elements of a finite set in ascending order
RECURSIVE SortedInts(_)
SortedInts(set) ==
    IF set = {} THEN <<>>
    ELSE LET least == CHOOSE x \in set : \A y \in set : x <= y
         IN <<least>> \o SortedInts(set \ {least})

RECURSIVE SortedStrings(_)
SortedStrings(set) ==
    IF set = {} THEN <<>>
    ELSE LET least == CHOOSE x \in set : \A y \in set : x = y \/ StrLt(x, y)
         IN <<least>> \o SortedStrings(set \ {least})

RECURSIVE SumReturns(_)
SumReturns(frame) ==
    IF frame = <<>> THEN 0 ELSE Head(frame).return_pct.v + SumReturns(Tail(frame))

RECURSIVE SumDays(_)
SumDays(frame) ==
    IF frame = <<>> THEN 0 ELSE Head(frame).days_in_trade.v + SumDays(Tail(frame))

\* float(x["return_pct"].mean()) over the rows that have a return, NaN when
\* none has; None for an empty selection
MeanReturn(frame) ==
    LET with_return == SelectSeq(frame, LAMBDA r : IsNum(r.return_pct))
    IN IF frame = <<>> THEN None
       ELSE IF with_return = <<>> THEN NaN
       ELSE Num((SumReturns(with_return) * (ScoreScale \div PctScale)) \div Len(with_return))

\* A count that takes every row as filled
Fills_EveryRow(subset) == Len(subset)
\* Line 349: int(subset["entry_hit"].sum())
Fills(subset) == Len(SelectSeq(subset, LAMBDA r : r.entry_hit))

\* A factor that is 0 when there are no losses
ProfitFactor_ZeroWithoutLosses(sum_wins, sum_losses) ==
    IF sum_losses < 0 THEN Num((sum_wins * ScoreScale) \div (0 - sum_losses)) ELSE Num(0)
\* Lines 359-361
ProfitFactor(sum_wins, sum_losses) ==
    IF sum_losses < 0
    THEN (IF (0 - sum_losses) > 0
          THEN Num((sum_wins * ScoreScale) \div (0 - sum_losses)) ELSE None)
    ELSE None

NoKey == <<>>

\* Lines 345-385: the row of one combo, <<>> when its subset is empty
ComboRow(frame, ticker, side, horizon, as_of_date) ==
    LET subset == SelectSeq(frame, LAMBDA r : /\ (ticker = NoKey \/ r.ticker = ticker[1])
                                              /\ (side = NoKey \/ r.side = side[1]))
        fills == Fills(subset)
        filled == SelectSeq(subset, LAMBDA r : r.entry_hit)
        wins == SelectSeq(filled, LAMBDA r : FGt(r.return_pct, Num(0)))
        losses == SelectSeq(filled, LAMBDA r : FLt(r.return_pct, Num(0)))
        with_days == SelectSeq(filled, LAMBDA r : IsNum(r.days_in_trade))
    IN IF subset = <<>> THEN <<>>
       ELSE << [as_of_date |-> as_of_date, ticker |-> ticker, side |-> side,
                horizon_days |-> horizon, signals |-> Len(subset), fills |-> fills,
                win_rate |-> IF fills # 0 THEN Num((Len(wins) * ScoreScale) \div fills)
                             ELSE Num(0),
                avg_return |-> MeanReturn(filled),
                avg_win |-> MeanReturn(wins),
                avg_loss |-> MeanReturn(losses),
                profit_factor |-> ProfitFactor(SumReturns(wins), SumReturns(losses)),
                avg_days_in_trade |->
                    IF with_days = <<>> THEN None
                    ELSE Num((SumDays(with_days) * ScoreScale) \div Len(with_days))] >>

RECURSIVE ComboRows(_, _, _, _)
ComboRows(frame, combos, horizon, as_of_date) ==
    IF combos = <<>> THEN <<>>
    ELSE ComboRow(frame, Head(combos)[1], Head(combos)[2], horizon, as_of_date)
         \o ComboRows(frame, Tail(combos), horizon, as_of_date)

RECURSIVE Pairs(_, _)
Pairs(tickers, sides) ==
    IF tickers = <<>> THEN <<>>
    ELSE [i \in 1..Len(sides) |-> << <<Head(tickers)>>, <<sides[i]>> >>]
         \o Pairs(Tail(tickers), sides)

\* The rows of the global combo only
_compute_metrics_for_groups_GlobalOnly(frame, horizon, as_of_date) ==
    ComboRows(frame, << <<NoKey, NoKey>> >>, horizon, as_of_date)

\* Lines 327-386
_compute_metrics_for_groups(frame, horizon, as_of_date) ==
    LET sides == SortedStrings({frame[i].side : i \in 1..Len(frame)})
        tickers == SortedStrings({frame[i].ticker : i \in 1..Len(frame)})
        combos == << <<NoKey, NoKey>> >>
                  \o [i \in 1..Len(sides) |-> <<NoKey, <<sides[i]>> >>]
                  \o [i \in 1..Len(tickers) |-> << <<tickers[i]>>, NoKey>>]
                  \o Pairs(tickers, sides)
    IN ComboRows(frame, combos, horizon, as_of_date)

RECURSIVE GroupRows(_, _, _)
GroupRows(frame, horizons, as_of_date) ==
    IF horizons = <<>> THEN <<>>
    ELSE _compute_metrics_for_groups(
             SelectSeq(frame, LAMBDA r : r.horizon_days = Num(Head(horizons))),
             Head(horizons), as_of_date)
         \o GroupRows(frame, Tail(horizons), as_of_date)

\* Lines 300-324; groupby leaves out the rows without a horizon
compute_metrics(rows, as_of_date) ==
    IF rows = <<>> THEN <<>>
    ELSE LET frame == MetricsFrame(rows)
             horizons == SortedInts({frame[i].horizon_days.v :
                                        i \in {j \in 1..Len(frame) :
                                                  IsNum(frame[j].horizon_days)}})
         IN GroupRows(frame, horizons, as_of_date)

MetInit ==
    /\ mRows \in SeqsUpTo(TradePool, MaxTrades)
    /\ mAsOf \in {9}
    /\ mMetrics = <<>>
    /\ mPc = "start"

\* Lines 305-309: no row, no metric
MetricsEmpty ==
    /\ mPc = "start"
    /\ mRows = <<>>
    /\ mMetrics' = <<>>
    /\ mPc' = "done"
    /\ UNCHANGED <<mRows, mAsOf>>
    /\ UNCHANGED notMet

\* Lines 310-324
MetricsCompute ==
    /\ mPc = "start"
    /\ mRows # <<>>
    /\ mMetrics' = compute_metrics(mRows, mAsOf)
    /\ mPc' = "done"
    /\ UNCHANGED <<mRows, mAsOf>>
    /\ UNCHANGED notMet

MetNext == MetricsEmpty \/ MetricsCompute

-----------------------------------------------------------------------------
(* Properties of compute_metrics *)

\* The input trades of a metric row's combo, by position
ComboTrades(m) ==
    {i \in 1..Len(mRows) :
        /\ mRows[i].horizon_days = Num(m.horizon_days)
        /\ (m.ticker = NoKey \/ StrUpper(mRows[i].ticker) = m.ticker[1])
        /\ (m.side = NoKey \/ StrUpper(mRows[i].side) = m.side[1])}

FilledTrades(m) == {i \in ComboTrades(m) : mRows[i].entry_hit = Hit}

Winners(m) ==
    {i \in FilledTrades(m) : IsNum(mRows[i].return_pct) /\ mRows[i].return_pct.v > 0}

Losers(m) ==
    {i \in FilledTrades(m) : IsNum(mRows[i].return_pct) /\ mRows[i].return_pct.v < 0}

RECURSIVE TotalReturn(_)
TotalReturn(indices) ==
    IF indices = {} THEN 0
    ELSE LET i == CHOOSE j \in indices : TRUE
         IN mRows[i].return_pct.v + TotalReturn(indices \ {i})

\* x is the quotient n / d in units of 1/ScoreScale, rounded down
IsQuotient(x, n, d) ==
    IsNum(x) /\ x.v * d <= n * ScoreScale /\ n * ScoreScale < (x.v + 1) * d

MetricRowsOut == {mMetrics[i] : i \in 1..Len(mMetrics)}

\* C14: in every metric row, signals is the number of input trades of the
\* row's combo, fills the number of those with entryHit true, and winRate the
\* number of filled trades with a return above 0 divided by fills, or 0 when
\* there is no fill.
C14_CountsAndWinRate ==
    mPc = "done" =>
        \A m \in MetricRowsOut :
            /\ m.signals = Cardinality(ComboTrades(m))
            /\ m.fills = Cardinality(FilledTrades(m))
            /\ IF m.fills = 0 THEN m.win_rate = Num(0)
               ELSE IsQuotient(m.win_rate, Cardinality(Winners(m)), m.fills)

\* Two filled trades with returns 0.05 and -0.02 next to an unfilled one:
\* the global row has 3 signals, 2 fills and a win rate of 0.5
C14_Witness ==
    /\ mPc = "done"
    /\ \E m \in MetricRowsOut :
          /\ m.ticker = NoKey /\ m.side = NoKey
          /\ m.signals = 3 /\ m.fills = 2
          /\ m.win_rate = Num(ScoreScale \div 2)
          /\ {mRows[i].return_pct : i \in FilledTrades(m)} = {Num(5), Num(0 - 2)}

\* The trades with a horizon, by position
Grouped == {i \in 1..Len(mRows) : IsNum(mRows[i].horizon_days)}

KeyOf(m) == <<m.ticker, m.side, m.horizon_days, m.as_of_date>>

\* The keys that have a trade: per horizon the global key, the sides, the
\* tickers and the pairs of the trades of that horizon
ExpectedKeys ==
    UNION {{<<NoKey, NoKey, mRows[i].horizon_days.v, mAsOf>>,
            <<NoKey, <<StrUpper(mRows[i].side)>>, mRows[i].horizon_days.v, mAsOf>>,
            <<<<StrUpper(mRows[i].ticker)>>, NoKey, mRows[i].horizon_days.v, mAsOf>>,
            <<<<StrUpper(mRows[i].ticker)>>, <<StrUpper(mRows[i].side)>>,
              mRows[i].horizon_days.v, mAsOf>>} : i \in Grouped}

RECURSIVE SumSignals(_)
SumSignals(rows) ==
    IF rows = {} THEN 0
    ELSE LET m == CHOOSE r \in rows : TRUE
         IN m.signals + SumSignals(rows \ {m})

\* The rows of horizon h of one class: with or without a ticker and a side
ClassRows(h, with_ticker, with_side) ==
    {m \in MetricRowsOut : /\ m.horizon_days = h
                           /\ (m.ticker # NoKey) = with_ticker
                           /\ (m.side # NoKey) = with_side}

\* C25: the output has one row for each key that has a trade and no other
\* row, no two rows with the same key, no row without a trade, and within a
\* horizon the signals of the by-side rows, of the by-ticker rows and of
\* the by-ticker-and-side rows each add up to the signals of the global row.
C25_OneRowPerNonEmptyCombo ==
    mPc = "done" =>
        /\ {KeyOf(m) : m \in MetricRowsOut} = ExpectedKeys
        /\ \A i, j \in 1..Len(mMetrics) :
              i # j => KeyOf(mMetrics[i]) # KeyOf(mMetrics[j])
        /\ \A m \in MetricRowsOut : m.signals > 0
        /\ \A h \in {mRows[i].horizon_days.v : i \in Grouped} :
              LET global == SumSignals(ClassRows(h, FALSE, FALSE))
              IN /\ Cardinality(ClassRows(h, FALSE, FALSE)) = 1
                 /\ global = Cardinality({i \in Grouped : mRows[i].horizon_days.v = h})
                 /\ SumSignals(ClassRows(h, FALSE, TRUE)) = global
                 /\ SumSignals(ClassRows(h, TRUE, FALSE)) = global
                 /\ SumSignals(ClassRows(h, TRUE, TRUE)) = global

\* C25 witness: trades of two horizons; in one horizon two tickers and two
\* sides give two of the four pairs.
C25_Witness ==
    /\ mPc = "done"
    /\ Cardinality({mRows[i].horizon_days.v : i \in Grouped}) = 2
    /\ \E h \in {mRows[i].horizon_days.v : i \in Grouped} :
          /\ Cardinality(ClassRows(h, TRUE, FALSE)) = 2
          /\ Cardinality(ClassRows(h, FALSE, TRUE)) = 2
          /\ Cardinality(ClassRows(h, TRUE, TRUE)) = 2

\* C15: profitFactor is null exactly when the combo has no filled trade with
\* a return below 0; otherwise it is the sum of the winning returns divided
\* by the absolute sum of the losing ones, a finite number that is 0 when
\* there are losses and no wins.
C15_ProfitFactor ==
    mPc = "done" =>
        \A m \in MetricRowsOut :
            /\ (m.profit_factor = None) <=> (Losers(m) = {})
            /\ Losers(m) # {} =>
                  /\ IsQuotient(m.profit_factor, TotalReturn(Winners(m)),
                                0 - TotalReturn(Losers(m)))
                  /\ Winners(m) = {} => m.profit_factor = Num(0)

\* One output carries a factor of 2.5, a factor of 0 and a null factor of a
\* combo that has fills
C15_Witness ==
    /\ mPc = "done"
    /\ \E m \in MetricRowsOut : m.profit_factor = Num((5 * ScoreScale) \div 2)
    /\ \E m \in MetricRowsOut : m.profit_factor = Num(0)
    /\ \E m \in MetricRowsOut : m.profit_factor = None /\ m.fills > 0

-----------------------------------------------------------------------------
(* run_backtest *)

MaxRunSignals == 3

RunSignal(ticker, side, levels, horizon_days, valid_for) ==
    [Signal(side, levels, horizon_days, valid_for) EXCEPT !.ticker = ticker]

\* Two signals of ticker A, one of ticker B and one of a ticker without bars
RunSignalPool ==
    {RunSignal(<<"A">>, BUY, <<2, 3, 1>>, 2, 1),
     RunSignal(<<"A">>, SELL, <<2, 1, 3>>, 3, 2),
     RunSignal(<<"B">>, BUY, <<2, 4, 0>>, 2, 1),
     RunSignal(<<"C">>, BUY, <<2, 3, 1>>, 1, 1)}

\* The candles one ticker may have
RunCandlePool ==
    {[d \in {1, 2} |-> IF d = 1 THEN DailyBar(2, 2, 2) ELSE DailyBar(2, 3, 3)],
     [d \in {1, 2, 3} |-> IF d = 1 THEN DailyBar(3, 3, 3)
                          ELSE IF d = 2 THEN DailyBar(1, 2, 2) ELSE DailyBar(1, 1, 1)],
     [d \in {3} |-> DailyBar(1, 3, 2)]}

\* The lookups: each of the tickers A and B has candles of the pool or none
CandleBooks ==
    UNION {[tickers -> RunCandlePool] : tickers \in SUBSET {<<"A">>, <<"B">>}}

\* A lookup that hands out the candles of its first ticker whatever is asked
TickerCandles_AnyTicker(candles, ticker) ==
    IF DOMAIN candles = {} THEN <<>>
    ELSE candles[CHOOSE t \in DOMAIN candles :
                     \A u \in DOMAIN candles : t = u \/ StrLt(t, u)]

\* Line 165: candles.get(signal.ticker, {})
TickerCandles(candles, ticker) ==
    IF ticker \in DOMAIN candles THEN candles[ticker] ELSE <<>>

\* Lines 163-167 as a function
RECURSIVE run_backtest(_, _)
run_backtest(signals, candles) ==
    IF signals = <<>> THEN <<>>
    ELSE <<_simulate_signal(Head(signals), TickerCandles(candles, Head(signals).ticker))>>
         \o run_backtest(Tail(signals), candles)

RunInit ==
    /\ rbSignals \in SeqsUpTo(RunSignalPool, MaxRunSignals)
    /\ rbCandles \in CandleBooks
    /\ rbI = 1
    /\ rbTrades = <<>>
    /\ rbPc = "loop"

\* Lines 164-166: one iteration of the loop over the signals
RunSignalStep ==
    /\ rbPc = "loop"
    /\ rbI <= Len(rbSignals)
    /\ LET signal == rbSignals[rbI]
           ticker_candles == TickerCandles(rbCandles, signal.ticker)
       IN rbTrades' = Append(rbTrades, _simulate_signal(signal, ticker_candles))
    /\ rbI' = rbI + 1
    /\ UNCHANGED <<rbSignals, rbCandles, rbPc>>
    /\ UNCHANGED notRun

\* Line 167
RunReturn ==
    /\ rbPc = "loop"
    /\ rbI > Len(rbSignals)
    /\ rbPc' = "done"
    /\ UNCHANGED <<rbSignals, rbCandles, rbI, rbTrades>>
    /\ UNCHANGED notRun

RunNext == RunSignalStep \/ RunReturn

-----------------------------------------------------------------------------
(* Properties of run_backtest *)

SignalFields ==
    {"date_ref", "valid_for", "ticker", "side", "entry", "target", "stop", "horizon_days"}

\* The lookup cut down to one ticker
OnlyTicker(candles, ticker) ==
    [t \in DOMAIN candles \cap {ticker} |-> candles[t]]

\* C24: the trades are one per signal in the order of the signals, each with
\* the fields of its signal; the trade of a signal is the one a run on that
\* signal alone, with the bars of its ticker alone, returns, and a run on the
\* signals in reverse order returns the same trades in reverse order.
C24_OneTradePerSignal ==
    /\ rbPc \in {"loop", "done"} =>
          /\ Len(rbTrades) = rbI - 1
          /\ \A i \in 1..Len(rbTrades) :
                /\ \A f \in SignalFields : rbTrades[i][f] = rbSignals[i][f]
                /\ <<rbTrades[i]>> = run_backtest(<<rbSignals[i]>>,
                                                  OnlyTicker(rbCandles, rbSignals[i].ticker))
    /\ rbPc = "done" =>
          /\ Len(rbTrades) = Len(rbSignals)
          /\ run_backtest(Reversed(rbSignals), rbCandles) = Reversed(rbTrades)

\* C24 witness: three signals, two of one ticker, with bars for two tickers
\* and none for the third, and trades that end in three different ways.
C24_Witness ==
    /\ rbPc = "done"
    /\ Len(rbTrades) = 3
    /\ rbTrades[1].ticker = rbTrades[3].ticker
    /\ rbTrades[1].side # rbTrades[3].side
    /\ Cardinality(DOMAIN rbCandles) = 2
    /\ Cardinality({rbTrades[i].exit_reason : i \in 1..3}) = 3

-----------------------------------------------------------------------------
GenIdle ==
    /\ gRows = <<>> /\ gCfg = Config(0, 0, 0, 0, FALSE, 0) /\ gMetrics = <<>>
    /\ gPc = "idle" /\ gCandidates = <<>> /\ gSignals = <<>> /\ gComputed = FALSE

SimIdle ==
    /\ sSignal = Signal(BUY, <<0, 0, 0>>, 0, 0) /\ sCandles = <<>> /\ sPc = "idle"
    /\ sDays = <<>> /\ sI = 1 /\ sLoc = NoLocals /\ sTrade = <<>>

ParseIdle ==
    /\ pRow = <<>> /\ pPc = "idle" /\ pPayload = <<>>

StoreIdle == StoreInit

BatchIdle ==
    /\ bKind = "none" /\ bRows = <<>> /\ bI = 1 /\ bOut = <<>> /\ bPc = "idle"

MetIdle ==
    /\ mRows = <<>> /\ mAsOf = 0 /\ mMetrics = <<>> /\ mPc = "idle"

RunIdle ==
    /\ rbSignals = <<>> /\ rbCandles = <<>> /\ rbI = 1 /\ rbTrades = <<>> /\ rbPc = "idle"

CalIdle ==
    /\ cOp = "none" /\ cDate = 0 /\ cHolidays = {} /\ cDelta = 0 /\ cStep = 0
    /\ cCandidate = 0 /\ cRemaining = 0 /\ cPc = "idle"

\* The signal generator alone
InitGen == GenInit /\ SimIdle /\ ParseIdle /\ StoreIdle /\ BatchIdle /\ CalIdle /\ MetIdle /\ RunIdle
SpecGen == InitGen /\ [][GenNext]_vars

\* The simulator alone
InitSim == SimInit /\ GenIdle /\ ParseIdle /\ StoreIdle /\ BatchIdle /\ CalIdle /\ MetIdle /\ RunIdle
SpecSim == InitSim /\ [][SimNext]_vars

\* The signal parser alone
InitParse == ParseInit /\ GenIdle /\ SimIdle /\ StoreIdle /\ BatchIdle /\ CalIdle /\ MetIdle /\ RunIdle
SpecParse == InitParse /\ [][ParseNext]_vars

\* The two jobs over the store, one run at a time
InitStore == StoreInit /\ GenIdle /\ SimIdle /\ ParseIdle /\ BatchIdle /\ CalIdle /\ MetIdle /\ RunIdle
SpecStore == InitStore /\ [][StoreNext]_vars

\* Generator runs that overlap
InitConc == StoreInit /\ GenIdle /\ SimIdle /\ ParseIdle /\ BatchIdle /\ CalIdle /\ MetIdle /\ RunIdle
SpecConc == InitConc /\ [][ConcNext]_vars

\* The batch parsers alone
InitBatch == BatchInit /\ GenIdle /\ SimIdle /\ ParseIdle /\ StoreIdle /\ CalIdle /\ MetIdle /\ RunIdle
SpecBatch == InitBatch /\ [][BatchNext]_vars

\* The calendar alone
InitCal == CalInit /\ GenIdle /\ SimIdle /\ ParseIdle /\ StoreIdle /\ BatchIdle /\ MetIdle /\ RunIdle
SpecCal == InitCal /\ [][CalNext]_vars

\* compute_metrics alone
InitMet == MetInit /\ GenIdle /\ SimIdle /\ ParseIdle /\ StoreIdle /\ BatchIdle /\ CalIdle /\ RunIdle
SpecMet == InitMet /\ [][MetNext]_vars

\* run_backtest alone
InitRun == RunInit /\ GenIdle /\ SimIdle /\ ParseIdle /\ StoreIdle /\ BatchIdle /\ CalIdle /\ MetIdle
SpecRun == InitRun /\ [][RunNext]_vars

====
